---------------------------- MODULE Spec2Model ----------------------------
(***************************************************************************)
(* State classification, response composition and session counting of the  *)
(* EliteMindset MCP server, over the revisions kept in the repository:     *)
(*   EMv2      src/src/server.js        next_best_step, bumpSession        *)
(*   lockdown  src/unnamed/part_000     next_best_step, buildLockedResponse*)
(*   short     src/unnamed/part_001     next_best_step, buildShortReply    *)
(*   reply     src/unnamed/part_002     next_best_step, buildStateReply    *)
(*   message   src/src/server.ts:206-   POST /message, getStateResponse    *)
(*   micro     src/src/server.ts:1-204  get_micro_action, two-level CTA    *)
(*   crisp     src/unnamed/part_003     get_micro_action, forced concision *)
(*   stdio     src/unnamed/part_004     get_micro_action, single CTA       *)
(* Text is a sequence of one-character strings, so that trimming,          *)
(* lowercasing, whitespace collapsing and substring search are computed    *)
(* character by character as the JavaScript does.                          *)
(***************************************************************************)
EXTENDS Integers, Sequences, FiniteSets, TLC

VARIABLES
    rev,              \* the revision of the server that is running
    input,            \* function run: the string handed to the function
    detected,         \* classifier run: the value the classifier returned
    pc,               \* function run: "input" before the call, then what was applied
    sessions,         \* the sessions Map: normalised session key -> [count, lastState]
    interactionCount, \* the module-level counter of the get_micro_action revisions
    pending,          \* requests received whose tool callback has not run yet
    served,           \* the responses composed (function run: the results returned)
                      \* so far, in the order composed
    nextId,           \* number of requests received so far, plus one
    outcome,          \* status of the last request answered ("none": none yet)
    httpTransports,   \* the Streamable-HTTP registry: the session ids that name a transport
    generated,        \* number of session ids randomUUID has generated so far
    lastHttp          \* the last /mcp request and how the route handler disposed of it

\* The variables of the Streamable-HTTP routes.
httpVars == <<httpTransports, generated, lastHttp>>

vars == <<rev, input, detected, pc, sessions, interactionCount, pending, served, nextId, outcome,
          httpTransports, generated, lastHttp>>

---------------------------------------------------------------------------
(* Bounds of the model.                                                    *)

\* Longest classifier input, in vocabulary chunks.
MaxChunks == 3

\* Most requests received in one run of the session model.
MaxCalls == 4

\* Most tools/call requests in one run of the get_micro_action model.
MaxMicroCalls == 5

\* Most transports created in one run of the Streamable-HTTP model.
MaxTransports == 2

\* Most tool calls in one run of the content model.
MaxToolCalls == 3

\* Longest text handed to a text function, in vocabulary chunks.
MaxParts == 3

\* Largest maximum handed to a length cap.
MaxM == 4

---------------------------------------------------------------------------
(* Strings.                                                                *)

\* An optional string that was left out (undefined in JavaScript).  It is a
\* one-element sequence whose element is no character, so it differs from
\* every string.
Absent == <<"undefined">>

\* /\s/ of a JavaScript regular expression and of String.prototype.trim,
\* over the characters of the model's alphabet.
IsSpace(c) == c \in {" ", "\n", "\t", "\r"}

Upper == <<"A","B","C","D","E","F","G","H","I","J","K","L","M",
           "N","O","P","Q","R","S","T","U","V","W","X","Y","Z">>

Lower == <<"a","b","c","d","e","f","g","h","i","j","k","l","m",
           "n","o","p","q","r","s","t","u","v","w","x","y","z">>

\* The lower-case letter of each upper-case letter.
UpperToLower ==
    [c \in {Upper[j] : j \in 1..26} |-> Lower[CHOOSE j \in 1..26 : Upper[j] = c]]

\* String.prototype.toLowerCase
toLowerCase(s) ==
    [i \in 1..Len(s) |->
        IF s[i] \in DOMAIN UpperToLower THEN UpperToLower[s[i]] ELSE s[i]]

RECURSIVE trimStart(_)
trimStart(s) ==
    IF s = <<>> THEN s
    ELSE IF IsSpace(Head(s)) THEN trimStart(Tail(s)) ELSE s

RECURSIVE trimEnd(_)
trimEnd(s) ==
    IF s = <<>> THEN s
    ELSE IF IsSpace(s[Len(s)]) THEN trimEnd(SubSeq(s, 1, Len(s) - 1)) ELSE s

\* String.prototype.trim
trim(s) == trimEnd(trimStart(s))

\* The concatenation of the sequences seqs[lo], ..., seqs[hi].
RECURSIVE concatRange(_, _, _)
concatRange(seqs, lo, hi) ==
    IF lo > hi THEN <<>>
    ELSE IF lo = hi THEN seqs[lo]
    ELSE LET mid == (lo + hi) \div 2
         IN  concatRange(seqs, lo, mid) \o concatRange(seqs, mid + 1, hi)

\* The result of a global replace that maps each character to a string:
\* the replacements, concatenated in order.
flatten(seqs) == concatRange(seqs, 1, Len(seqs))

\* s.replace(/\s+/g, " "): every maximal run of whitespace becomes one space.
collapseWhitespace(s) ==
    flatten([i \in 1..Len(s) |->
                IF IsSpace(s[i])
                THEN IF i > 1 /\ IsSpace(s[i - 1]) THEN <<>> ELSE <<" ">>
                ELSE <<s[i]>>])

\* String.prototype.includes
includes(s, kw) ==
    \E i \in 0..(Len(s) - Len(kw)) : SubSeq(s, i + 1, i + Len(kw)) = kw

includesAny(s, kws) == \E kw \in kws : includes(s, kw)

\* String(v ?? "") and String(v || ""): undefined becomes the empty string.
StringOrEmpty(v) == IF v = Absent THEN <<>> ELSE v

\* clean() of the EMv2 revision: String(v ?? "").trim()
clean_EMv2(v) == trim(StringOrEmpty(v))

\* clean() of the lockdown revision: String(s ?? "").replace(/\s+/g, " ").trim()
clean_lockdown(s) == trim(collapseWhitespace(StringOrEmpty(s)))

---------------------------------------------------------------------------
(* The four states and the keyword tiers of each revision's classifier.    *)

OVERWHELMED == "overwhelmed"
STUCK == "stuck"
READY == "ready-to-act"
UNCLEAR == "unclear-direction"

States == {OVERWHELMED, STUCK, READY, UNCLEAR}

\* What a JavaScript function returns when it falls off its end.
Undefined == "undefined"

\* ---- server.js, EMv2 ----

OverwhelmedKeywords_EMv2 ==
    {<<"o","v","e","r","w","h","e","l","m">>, <<"t","o","o"," ","m","u","c","h">>,
     <<"p","a","r","a","l","y","z">>, <<"s","p","i","n","n","i","n","g">>,
     <<"c","a","n","'","t"," ","h","a","n","d","l","e">>, <<"c","a","n","t"," ","h","a","n","d","l","e">>}

StuckKeywords_EMv2 ==
    {<<"s","t","u","c","k">>, <<"p","r","o","c","r","a","s","t">>,
     <<"a","v","o","i","d">>, <<"c","a","n","'","t"," ","s","t","a","r","t">>,
     <<"c","a","n","t"," ","s","t","a","r","t">>, <<"s","c","r","o","l","l","i","n","g">>}

ReadyKeywords_EMv2 ==
    {<<"r","e","a","d","y">>, <<"l","e","t","s"," ","d","o">>,
     <<"l","e","t","'","s"," ","d","o">>, <<"s","t","a","r","t"," ","n","o","w">>}

UnclearKeywords_EMv2 ==
    {<<"u","n","c","l","e","a","r">>, <<"p","r","i","o","r","i","t">>,
     <<"d","o","n","'","t"," ","k","n","o","w"," ","w","h","a","t">>, <<"d","o","n","t"," ","k","n","o","w"," ","w","h","a","t">>,
     <<"w","h","i","c","h">>, <<"d","e","c","i","d","e">>}

\* The string the classifier searches (`t` in the source).
searched_EMv2(userText) == toLowerCase(clean_EMv2(userText))

\* detectState of the EMv2 revision with the ready tier tested first.
detectState_EMv2_readyFirst(userText) ==
    LET t == searched_EMv2(userText) IN
    IF includesAny(t, ReadyKeywords_EMv2) THEN READY
    ELSE IF includesAny(t, OverwhelmedKeywords_EMv2) THEN OVERWHELMED
    ELSE IF includesAny(t, StuckKeywords_EMv2) THEN STUCK
    ELSE IF includesAny(t, UnclearKeywords_EMv2) THEN UNCLEAR
    ELSE UNCLEAR

detectState_EMv2(userText) ==
    LET t == searched_EMv2(userText) IN
    IF includesAny(t, OverwhelmedKeywords_EMv2) THEN OVERWHELMED
    ELSE IF includesAny(t, StuckKeywords_EMv2) THEN STUCK
    ELSE IF includesAny(t, ReadyKeywords_EMv2) THEN READY
    ELSE IF includesAny(t, UnclearKeywords_EMv2) THEN UNCLEAR
    ELSE UNCLEAR

\* ---- part_000, LOCKDOWN-v1 ----

OverwhelmedKeywords_lockdown ==
    {<<"o","v","e","r","w","h","e","l","m">>, <<"t","o","o"," ","m","u","c","h">>,
     <<"p","a","r","a","l","y","z">>, <<"s","p","i","n","n","i","n","g">>,
     <<"c","a","n","t"," ","f","o","c","u","s">>, <<"c","a","n","'","t"," ","f","o","c","u","s">>,
     <<"l","o","s","i","n","g"," ","f","o","c","u","s">>}

StuckKeywords_lockdown ==
    {<<"s","t","u","c","k">>, <<"p","r","o","c","r","a","s","t">>,
     <<"a","v","o","i","d">>, <<"c","a","n","'","t"," ","s","t","a","r","t">>,
     <<"c","a","n","t"," ","s","t","a","r","t">>, <<"s","c","r","o","l","l">>}

ReadyKeywords_lockdown ==
    {<<"r","e","a","d","y">>, <<"l","e","t","'","s"," ","d","o">>,
     <<"l","e","t","s"," ","d","o">>, <<"s","t","a","r","t"," ","n","o","w">>}

\* The string the classifier searches (`t` in the source).
searched_lockdown(userText) == toLowerCase(clean_lockdown(userText))

\* detectState of the lockdown revision without its closing return.
detectState_lockdown_noDefault(userText) ==
    LET t == searched_lockdown(userText) IN
    IF includesAny(t, OverwhelmedKeywords_lockdown) THEN OVERWHELMED
    ELSE IF includesAny(t, StuckKeywords_lockdown) THEN STUCK
    ELSE IF includesAny(t, ReadyKeywords_lockdown) THEN READY
    ELSE Undefined

detectState_lockdown(userText) ==
    LET t == searched_lockdown(userText) IN
    IF includesAny(t, OverwhelmedKeywords_lockdown) THEN OVERWHELMED
    ELSE IF includesAny(t, StuckKeywords_lockdown) THEN STUCK
    ELSE IF includesAny(t, ReadyKeywords_lockdown) THEN READY
    ELSE UNCLEAR

\* ---- part_001, short copy ----

OverwhelmedKeywords_short ==
    {<<"o","v","e","r","w","h","e","l","m","e","d">>, <<"t","o","o"," ","m","u","c","h">>,
     <<"c","a","n","'","t"," ","h","a","n","d","l","e">>, <<"p","a","r","a","l","y","z","e","d">>,
     <<"s","p","i","n","n","i","n","g">>}

StuckKeywords_short ==
    {<<"s","t","u","c","k">>, <<"c","a","n","'","t"," ","s","t","a","r","t">>,
     <<"c","a","n","t"," ","s","t","a","r","t">>, <<"p","r","o","c","r","a","s","t">>,
     <<"a","v","o","i","d">>}

ReadyKeywords_short ==
    {<<"r","e","a","d","y">>, <<"l","e","t","'","s"," ","d","o">>,
     <<"l","e","t","s"," ","d","o">>, <<"s","t","a","r","t"," ","n","o","w">>}

UnclearKeywords_short ==
    {<<"u","n","c","l","e","a","r">>, <<"d","o","n","'","t"," ","k","n","o","w"," ","w","h","a","t">>,
     <<"d","o","n","t"," ","k","n","o","w"," ","w","h","a","t">>, <<"p","r","i","o","r","i","t","i","z","e">>,
     <<"w","h","i","c","h">>}

\* The string the classifier searches (`t` in the source).
searched_short(message) == toLowerCase(StringOrEmpty(message))

\* detectUserState of the short-copy revision whose fourth tier is the only
\* way to the unclear state: nothing is returned when no tier matches.
detectUserState_short_noDefault(message) ==
    LET t == searched_short(message) IN
    IF includesAny(t, OverwhelmedKeywords_short) THEN OVERWHELMED
    ELSE IF includesAny(t, StuckKeywords_short) THEN STUCK
    ELSE IF includesAny(t, ReadyKeywords_short) THEN READY
    ELSE IF includesAny(t, UnclearKeywords_short) THEN UNCLEAR
    ELSE Undefined

detectUserState_short(message) ==
    LET t == searched_short(message) IN
    IF includesAny(t, OverwhelmedKeywords_short) THEN OVERWHELMED
    ELSE IF includesAny(t, StuckKeywords_short) THEN STUCK
    ELSE IF includesAny(t, ReadyKeywords_short) THEN READY
    ELSE IF includesAny(t, UnclearKeywords_short) THEN UNCLEAR
    ELSE UNCLEAR

\* ---- part_002, state reply ----

OverwhelmedKeywords_reply ==
    {<<"o","v","e","r","w","h","e","l","m","e","d">>, <<"t","o","o"," ","m","u","c","h">>,
     <<"c","a","n","'","t"," ","h","a","n","d","l","e">>, <<"p","a","r","a","l","y","z","e","d">>}

StuckKeywords_reply ==
    {<<"s","t","u","c","k">>, <<"d","o","n","'","t"," ","k","n","o","w"," ","h","o","w">>,
     <<"n","o","t"," ","s","u","r","e"," ","h","o","w">>, <<"c","a","n","'","t"," ","s","t","a","r","t">>}

ReadyKeywords_reply ==
    {<<"r","e","a","d","y">>, <<"l","e","t","'","s"," ","d","o">>,
     <<"l","e","t","s"," ","d","o">>, <<"s","t","a","r","t"," ","n","o","w">>}

UnclearKeywords_reply ==
    {<<"u","n","c","l","e","a","r">>, <<"d","o","n","'","t"," ","k","n","o","w"," ","w","h","a","t">>,
     <<"d","o","n","t"," ","k","n","o","w"," ","w","h","a","t">>, <<"w","h","i","c","h">>}

\* The string the classifier searches (`t` in the source).
searched_reply(message) == toLowerCase(StringOrEmpty(message))

\* detectUserState of the state-reply revision with its second and third
\* tiers exchanged.
detectUserState_reply_readyBeforeStuck(message) ==
    LET t == searched_reply(message) IN
    IF includesAny(t, OverwhelmedKeywords_reply) THEN OVERWHELMED
    ELSE IF includesAny(t, ReadyKeywords_reply) THEN READY
    ELSE IF includesAny(t, StuckKeywords_reply) THEN STUCK
    ELSE IF includesAny(t, UnclearKeywords_reply) THEN UNCLEAR
    ELSE UNCLEAR

detectUserState_reply(message) ==
    LET t == searched_reply(message) IN
    IF includesAny(t, OverwhelmedKeywords_reply) THEN OVERWHELMED
    ELSE IF includesAny(t, StuckKeywords_reply) THEN STUCK
    ELSE IF includesAny(t, ReadyKeywords_reply) THEN READY
    ELSE IF includesAny(t, UnclearKeywords_reply) THEN UNCLEAR
    ELSE UNCLEAR

\* ---- server.ts, POST /message ----

OverwhelmedKeywords_message ==
    {<<"o","v","e","r","w","h","e","l","m","e","d">>, <<"t","o","o"," ","m","u","c","h">>,
     <<"c","a","n","'","t"," ","h","a","n","d","l","e">>}

StuckKeywords_message ==
    {<<"s","t","u","c","k">>, <<"d","o","n","'","t"," ","k","n","o","w"," ","h","o","w">>,
     <<"n","o","t"," ","s","u","r","e"," ","h","o","w">>}

ReadyKeywords_message ==
    {<<"r","e","a","d","y">>, <<"l","e","t","'","s"," ","d","o">>,
     <<"s","t","a","r","t">>}

UnclearKeywords_message ==
    {<<"u","n","c","l","e","a","r">>, <<"d","o","n","'","t"," ","k","n","o","w"," ","w","h","a","t">>,
     <<"w","h","i","c","h">>}

\* The string the classifier searches (`lowerMessage` in the source).
searched_message(message) == toLowerCase(message)

detectUserState_message(message) ==
    LET t == searched_message(message) IN
    IF includesAny(t, OverwhelmedKeywords_message) THEN OVERWHELMED
    ELSE IF includesAny(t, StuckKeywords_message) THEN STUCK
    ELSE IF includesAny(t, ReadyKeywords_message) THEN READY
    ELSE IF includesAny(t, UnclearKeywords_message) THEN UNCLEAR
    ELSE UNCLEAR


---------------------------------------------------------------------------
(* The /mcp routes before any request: an empty registry, no id generated. *)

\* The tool arguments of a request that carries none.
NoArguments ==
    [sessionId |-> Absent, message |-> Absent, goal |-> Absent, context |-> Absent,
     baseUrl |-> Absent]

\* The body of a request that has none.
NoBody == [method |-> "none", name |-> Absent, arguments |-> NoArguments]

\* lastHttp before the first /mcp request.
NoRequest ==
    [method |-> "none", header |-> Absent, body |-> NoBody, fails |-> "none",
     status |-> "none", transport |-> Absent, created |-> FALSE]

NoHttp ==
    /\ httpTransports = {}
    /\ generated = 0
    /\ lastHttp = NoRequest
---------------------------------------------------------------------------
(* Which classifier a revision runs.                                       *)

ClassifierRevs == {"EMv2", "lockdown", "short", "reply", "message"}

detect(r, text) ==
    CASE r = "EMv2" -> detectState_EMv2(text)
      [] r = "lockdown" -> detectState_lockdown(text)
      [] r = "short" -> detectUserState_short(text)
      [] r = "reply" -> detectUserState_reply(text)
      [] r = "message" -> detectUserState_message(text)

searched(r, text) ==
    CASE r = "EMv2" -> searched_EMv2(text)
      [] r = "lockdown" -> searched_lockdown(text)
      [] r = "short" -> searched_short(text)
      [] r = "reply" -> searched_reply(text)
      [] r = "message" -> searched_message(text)

OverwhelmedKeywords(r) ==
    CASE r = "EMv2" -> OverwhelmedKeywords_EMv2
      [] r = "lockdown" -> OverwhelmedKeywords_lockdown
      [] r = "short" -> OverwhelmedKeywords_short
      [] r = "reply" -> OverwhelmedKeywords_reply
      [] r = "message" -> OverwhelmedKeywords_message

StuckKeywords(r) ==
    CASE r = "EMv2" -> StuckKeywords_EMv2
      [] r = "lockdown" -> StuckKeywords_lockdown
      [] r = "short" -> StuckKeywords_short
      [] r = "reply" -> StuckKeywords_reply
      [] r = "message" -> StuckKeywords_message

ReadyKeywords(r) ==
    CASE r = "EMv2" -> ReadyKeywords_EMv2
      [] r = "lockdown" -> ReadyKeywords_lockdown
      [] r = "short" -> ReadyKeywords_short
      [] r = "reply" -> ReadyKeywords_reply
      [] r = "message" -> ReadyKeywords_message

UnclearKeywords(r) ==
    CASE r = "EMv2" -> UnclearKeywords_EMv2
      [] r = "lockdown" -> {}
      [] r = "short" -> UnclearKeywords_short
      [] r = "reply" -> UnclearKeywords_reply
      [] r = "message" -> UnclearKeywords_message

---------------------------------------------------------------------------
(* Classifier inputs: every concatenation of at most MaxChunks chunks.     *)

Chunks ==
    {<<"t","o","o"," ","m","u","c","h">>, <<"t","o","o">>, <<"m","u","c","h">>, <<"O","v","e","r","w","h","e","l","m","e","d">>, <<"s","t","u","c","k">>,
     <<"c","a","n","'","t"," ","s","t","a","r","t">>, <<"r","e","a","d","y">>, <<"w","h","i","c","h">>, <<"h","i">>, <<" ">>, <<" "," ">>, <<"\n">>}

RECURSIVE TextsUpTo(_)
TextsUpTo(n) ==
    IF n = 0 THEN {<<>>}
    ELSE LET shorter == TextsUpTo(n - 1)
         IN  shorter \cup {p \o c : p \in shorter, c \in Chunks}

Texts == TextsUpTo(MaxChunks)

NoSessions == [k \in {} |-> 0]

---------------------------------------------------------------------------
(* The classifier called on its own: one call of detectState or            *)
(* detectUserState on one string.                                          *)

InitClassifier ==
    /\ rev \in ClassifierRevs
    /\ input \in Texts
    /\ detected = Undefined
    /\ pc = "input"
    /\ sessions = NoSessions
    /\ interactionCount = 0
    /\ pending = {}
    /\ served = <<>>
    /\ nextId = 1
    /\ outcome = "none"
    /\ NoHttp

Classify ==
    /\ pc = "input"
    /\ detected' = detect(rev, input)
    /\ pc' = "classified"
    /\ UNCHANGED <<rev, input, sessions, interactionCount, pending, served, nextId, outcome>>
    /\ UNCHANGED httpVars

NextClassifier == Classify

SpecClassifier == InitClassifier /\ [][NextClassifier]_vars

---------------------------------------------------------------------------
(* Response templates and the text composed from them.  A character        *)
(* outside ASCII is written as the name of its UTF-16 code unit, "U+2026"  *)
(* for the ellipsis, so the length of a sequence is the JavaScript length  *)
(* of the string.                                                          *)

\* String.prototype.endsWith
endsWith(s, suffix) ==
    /\ Len(suffix) <= Len(s)
    /\ SubSeq(s, Len(s) - Len(suffix) + 1, Len(s)) = suffix

\* String.prototype.slice(0, n): a negative n counts from the end.
slice0(s, n) ==
    LET end == IF n < 0
               THEN (IF Len(s) + n < 0 THEN 0 ELSE Len(s) + n)
               ELSE (IF n < Len(s) THEN n ELSE Len(s))
    IN  SubSeq(s, 1, end)

\* The characters of a state name, as a template literal interpolates it.
state_text(state) ==
    CASE state = OVERWHELMED -> <<"o","v","e","r","w","h","e","l","m","e","d">>
      [] state = STUCK -> <<"s","t","u","c","k">>
      [] state = READY -> <<"r","e","a","d","y","-","t","o","-","a","c","t">>
      [] state = UNCLEAR -> <<"u","n","c","l","e","a","r","-","d","i","r","e","c","t","i","o","n">>

\* EMv2: the string literal that cap() appends, as the file spells it.
capMarker == <<"U+00E2","U+20AC","U+00A6">>

\* EMv2: cap(text, maxChars)
cap(text, maxChars) ==
    LET t == collapseWhitespace(clean_EMv2(text))
    IN  IF Len(t) <= maxChars THEN t
        ELSE slice0(t, maxChars - 1) \o capMarker

\* EMv2: STATE_CONTENT, with the fallback to the unclear entry.
STATE_CONTENT(state) ==
    CASE state = OVERWHELMED ->
           [imageFile |-> <<"o","v","e","r","w","h","e","l","m","e","d",".","p","n","g">>,
            nextStep |-> <<"S","e","t"," ","a"," ","5","-","m","i","n","u","t","e"," ","t","i","m","e","r"," ","a","n","d"," ","d","o"," ","t","h","e"," ","s","m","a","l","l","e","s","t"," ","t","a","s","k"," ","t","h","a","t"," ","r","e","d","u","c","e","s"," ","s","t","r","e","s","s"," ","f","a","s","t","e","s","t",".">>,
            question |-> <<"W","h","a","t"," ","i","s"," ","t","h","a","t"," ","o","n","e"," ","s","m","a","l","l"," ","t","a","s","k","?">>]
      [] state = STUCK ->
           [imageFile |-> <<"s","t","u","c","k",".","p","n","g">>,
            nextStep |-> <<"D","o"," ","a"," ","2","-","m","i","n","u","t","e"," ","v","e","r","s","i","o","n"," ","o","f"," ","t","h","e"," ","t","a","s","k"," ","(","r","i","d","i","c","u","l","o","u","s","l","y"," ","s","m","a","l","l",")",".">>,
            question |-> <<"W","h","a","t"," ","i","s"," ","t","h","e"," ","2","-","m","i","n","u","t","e"," ","v","e","r","s","i","o","n","?">>]
      [] state = READY ->
           [imageFile |-> <<"r","e","a","d","y","-","t","o","-","a","c","t",".","p","n","g">>,
            nextStep |-> <<"W","r","i","t","e"," ","t","h","e"," ","n","e","x","t"," ","m","i","c","r","o","-","a","c","t","i","o","n"," ","a","n","d"," ","d","o"," ","i","t"," ","n","o","w",".">>,
            question |-> <<"W","h","a","t"," ","i","s"," ","y","o","u","r"," ","n","e","x","t"," ","m","i","c","r","o","-","a","c","t","i","o","n","?">>]
      [] OTHER ->
           [imageFile |-> <<"u","n","c","l","e","a","r","-","d","i","r","e","c","t","i","o","n",".","p","n","g">>,
            nextStep |-> <<"C","h","o","o","s","e"," ","o","n","e"," ","o","u","t","c","o","m","e"," ","f","o","r"," ","t","h","e"," ","n","e","x","t"," ","1","5"," ","m","i","n","u","t","e","s"," ","a","n","d"," ","i","g","n","o","r","e"," ","e","v","e","r","y","t","h","i","n","g"," ","e","l","s","e",".">>,
            question |-> <<"W","h","a","t"," ","o","u","t","c","o","m","e"," ","m","a","t","t","e","r","s"," ","m","o","s","t"," ","r","i","g","h","t"," ","n","o","w","?">>]

\* EMv2: `text` of buildToolContent for every state, computed once.
texts_EMv2 ==
    [state \in States |->
        LET spec == STATE_CONTENT(state)
        IN  cap(<<"[","E","M","v","2","]"," ","N","e","x","t"," ","s","t","e","p",":"," ">> \o spec.nextStep \o <<"\n","Q","u","e","s","t","i","o","n",":"," ">> \o spec.question, 210)]

\* EMv2: the text item of buildToolContent.
text_EMv2(state) == texts_EMv2[state]

\* short copy: stateResponses, with the fallback to the unclear entry.
stateResponses_short(state) ==
    CASE state = OVERWHELMED ->
           [imageFile |-> <<"o","v","e","r","w","h","e","l","m","e","d",".","p","n","g">>,
            text |-> <<"P","i","c","k"," ","o","n","e"," ","t","h","i","n","g","."," ","D","o"," ","5"," ","m","i","n","u","t","e","s",".">>,
            question |-> <<"W","h","a","t","U+2019","s"," ","t","h","e"," ","s","m","a","l","l","e","s","t"," ","t","a","s","k"," ","t","h","a","t"," ","w","o","u","l","d"," ","l","o","w","e","r"," ","s","t","r","e","s","s"," ","f","a","s","t","e","s","t","?">>]
      [] state = STUCK ->
           [imageFile |-> <<"s","t","u","c","k",".","p","n","g">>,
            text |-> <<"W","e","U+2019","r","e"," ","g","o","i","n","g"," ","t","o"," ","m","a","k","e"," ","i","t"," ","s","t","u","p","i","d","-","e","a","s","y",".">>,
            question |-> <<"W","h","a","t","U+2019","s"," ","t","h","e"," ","f","i","r","s","t"," ","2","-","m","i","n","u","t","e"," ","s","t","e","p"," ","y","o","u"," ","c","a","n"," ","d","o"," ","r","i","g","h","t"," ","n","o","w","?">>]
      [] state = READY ->
           [imageFile |-> <<"r","e","a","d","y","-","t","o","-","a","c","t",".","p","n","g">>,
            text |-> <<"G","o","o","d","."," ","M","o","v","e",".">>,
            question |-> <<"W","h","a","t"," ","i","s"," ","t","h","e"," ","n","e","x","t"," ","m","i","c","r","o","-","a","c","t","i","o","n"," ","(","2","U+2013","5"," ","m","i","n","u","t","e","s",")","?">>]
      [] OTHER ->
           [imageFile |-> <<"u","n","c","l","e","a","r","-","d","i","r","e","c","t","i","o","n",".","p","n","g">>,
            text |-> <<"Y","o","u"," ","d","o","n","U+2019","t"," ","n","e","e","d"," ","m","o","t","i","v","a","t","i","o","n","."," ","Y","o","u"," ","n","e","e","d"," ","a"," ","t","a","r","g","e","t",".">>,
            question |-> <<"W","h","a","t"," ","s","i","n","g","l","e"," ","q","u","e","s","t","i","o","n",","," ","i","f"," ","a","n","s","w","e","r","e","d",","," ","m","a","k","e","s"," ","t","h","e"," ","n","e","x","t"," ","s","t","e","p"," ","o","b","v","i","o","u","s","?">>]

\* short copy: what buildShortReply appends from the third reply on.
cta_short == <<"\n","\n","-","-","-","\n","V","i","s","i","t"," ","E","l","i","t","e","M","i","n","d","s","e","t",".","a","i">>

\* state reply: stateResponses, with the fallback to the unclear entry.
stateResponses_reply(state) ==
    CASE state = OVERWHELMED ->
           [imageFile |-> <<"o","v","e","r","w","h","e","l","m","e","d",".","p","n","g">>,
            message |-> <<"I"," ","c","a","n"," ","s","e","e"," ","y","o","u","'","r","e"," ","f","e","e","l","i","n","g"," ","o","v","e","r","w","h","e","l","m","e","d"," ","r","i","g","h","t"," ","n","o","w",".","\n","\n","W","h","a","t","'","s"," ","t","h","e"," ","O","N","E"," ","s","m","a","l","l","e","s","t"," ","t","h","i","n","g"," ","y","o","u"," ","c","o","u","l","d"," ","d","o"," ","i","n"," ","t","h","e"," ","n","e","x","t"," ","5"," ","m","i","n","u","t","e","s"," ","t","h","a","t"," ","w","o","u","l","d"," ","h","e","l","p","?">>]
      [] state = STUCK ->
           [imageFile |-> <<"s","t","u","c","k",".","p","n","g">>,
            message |-> <<"Y","o","u","'","r","e"," ","s","t","u","c","k",","," ","a","n","d"," ","t","h","a","t","'","s"," ","n","o","r","m","a","l",".","\n","\n","W","h","a","t","'","s"," ","t","h","e"," ","m","a","i","n"," ","t","h","i","n","g"," ","p","r","e","v","e","n","t","i","n","g"," ","a","c","t","i","o","n"," ","r","i","g","h","t"," ","n","o","w","?">>]
      [] state = READY ->
           [imageFile |-> <<"r","e","a","d","y","-","t","o","-","a","c","t",".","p","n","g">>,
            message |-> <<"G","o","o","d","."," ","L","e","t","'","s"," ","m","o","v","e",".","\n","\n","W","h","a","t","'","s"," ","y","o","u","r"," ","n","e","x","t"," ","m","i","c","r","o","-","a","c","t","i","o","n"," ","(","s","o","m","e","t","h","i","n","g"," ","y","o","u"," ","c","a","n"," ","d","o"," ","i","n"," ","2","U+2013","5"," ","m","i","n","u","t","e","s",")","?">>]
      [] OTHER ->
           [imageFile |-> <<"u","n","c","l","e","a","r","-","d","i","r","e","c","t","i","o","n",".","p","n","g">>,
            message |-> <<"Y","o","u"," ","d","o","n","'","t"," ","n","e","e","d"," ","m","o","t","i","v","a","t","i","o","n","."," ","Y","o","u"," ","n","e","e","d"," ","c","l","a","r","i","t","y",".","\n","\n","W","h","a","t"," ","q","u","e","s","t","i","o","n",","," ","i","f"," ","a","n","s","w","e","r","e","d",","," ","w","o","u","l","d"," ","m","a","k","e"," ","t","h","e"," ","n","e","x","t"," ","s","t","e","p"," ","o","b","v","i","o","u","s","?">>]

\* state reply: what buildStateReply appends from the third reply on.
cta_reply == <<"\n","\n","-","-","-","\n","\n","W","a","n","t"," ","t","o"," ","g","o"," ","d","e","e","p","e","r","?"," ","V","i","s","i","t"," ","[","E","l","i","t","e","M","i","n","d","s","e","t",".","a","i","]","(","h","t","t","p","s",":","/","/","e","l","i","t","e","m","i","n","d","s","e","t",".","a","i",")">>

\* state reply: `url` of the next_best_step callback.
url_reply(baseUrl) ==
    LET u == trim(StringOrEmpty(baseUrl))
    IN  IF u = <<>> THEN <<"h","t","t","p","s",":","/","/","e","l","i","t","e","m","i","n","d","s","e","t",".","a","i">> ELSE u

\* POST /message: stateResponses.
stateResponses_message(state) ==
    CASE state = OVERWHELMED ->
           [imagePath |-> <<"/","o","v","e","r","w","h","e","l","m","e","d",".","p","n","g">>,
            message |-> <<"I"," ","c","a","n"," ","s","e","e"," ","y","o","u","'","r","e"," ","f","e","e","l","i","n","g"," ","o","v","e","r","w","h","e","l","m","e","d"," ","r","i","g","h","t"," ","n","o","w","."," ","L","e","t","'","s"," ","b","r","e","a","k"," ","t","h","i","s"," ","d","o","w","n"," ","t","o","g","e","t","h","e","r",".","\n","\n","W","h","a","t","'","s"," ","t","h","e"," ","O","N","E"," ","s","m","a","l","l","e","s","t"," ","t","h","i","n","g"," ","y","o","u"," ","c","o","u","l","d"," ","d","o"," ","i","n"," ","t","h","e"," ","n","e","x","t"," ","5"," ","m","i","n","u","t","e","s"," ","t","h","a","t"," ","w","o","u","l","d"," ","h","e","l","p","?">>]
      [] state = STUCK ->
           [imagePath |-> <<"/","s","t","u","c","k",".","p","n","g">>,
            message |-> <<"Y","o","u","'","r","e"," ","s","t","u","c","k",","," ","a","n","d"," ","t","h","a","t","'","s"," ","c","o","m","p","l","e","t","e","l","y"," ","n","o","r","m","a","l","."," ","L","e","t","'","s"," ","g","e","t"," ","y","o","u"," ","u","n","s","t","u","c","k",".","\n","\n","W","h","a","t","'","s"," ","p","r","e","v","e","n","t","i","n","g"," ","y","o","u"," ","f","r","o","m"," ","t","a","k","i","n","g"," ","a","c","t","i","o","n"," ","r","i","g","h","t"," ","n","o","w","?">>]
      [] state = READY ->
           [imagePath |-> <<"/","r","e","a","d","y","-","t","o","-","a","c","t",".","p","n","g">>,
            message |-> <<"G","r","e","a","t","!"," ","Y","o","u","'","r","e"," ","r","e","a","d","y"," ","t","o"," ","m","o","v","e"," ","f","o","r","w","a","r","d","."," ","L","e","t","'","s"," ","m","a","k","e"," ","t","h","i","s"," ","h","a","p","p","e","n",".","\n","\n","W","h","a","t","'","s"," ","y","o","u","r"," ","v","e","r","y"," ","n","e","x","t"," ","m","i","c","r","o","-","a","c","t","i","o","n","?">>]
      [] state = UNCLEAR ->
           [imagePath |-> <<"/","U","n","c","l","e","a","r","-","d","i","r","e","c","t","i","o","n",".","p","n","g">>,
            message |-> <<"I","t"," ","s","o","u","n","d","s"," ","l","i","k","e"," ","y","o","u"," ","n","e","e","d"," ","c","l","a","r","i","t","y"," ","b","e","f","o","r","e"," ","t","a","k","i","n","g"," ","a","c","t","i","o","n",".","\n","\n","W","h","a","t"," ","s","p","e","c","i","f","i","c"," ","q","u","e","s","t","i","o","n",","," ","i","f"," ","a","n","s","w","e","r","e","d",","," ","w","o","u","l","d"," ","h","e","l","p"," ","y","o","u"," ","m","o","v","e"," ","f","o","r","w","a","r","d","?">>]

\* POST /message: what getStateResponse appends from the third reply on.
cta_message == <<"\n","\n","-","-","-","\n","\n","U+D83C","U+DFAF"," ","*","*","R","e","a","d","y"," ","f","o","r"," ","d","e","e","p","e","r"," ","t","r","a","n","s","f","o","r","m","a","t","i","o","n","?","*","*","\n","\n","V","i","s","i","t"," ","[","E","l","i","t","e","M","i","n","d","s","e","t",".","a","i","]","(","h","t","t","p","s",":","/","/","e","l","i","t","e","m","i","n","d","s","e","t",".","a","i",")"," ","f","o","r"," ","p","e","r","s","o","n","a","l","i","z","e","d"," ","c","o","a","c","h","i","n","g"," ","a","n","d"," ","t","o","o","l","s",".">>

---------------------------------------------------------------------------
(* Tool input assembly and session keys.                                   *)

\* "default", the key of callers that give none.
DefaultKey == <<"d","e","f","a","u","l","t">>

\* [message, goal, context].filter(Boolean): undefined and "" are dropped.
filterBoolean(fields) == SelectSeq(fields, LAMBDA f : f # Absent /\ f # <<>>)

\* Array.prototype.join
RECURSIVE join(_, _)
join(parts, sep) ==
    IF parts = <<>> THEN <<>>
    ELSE IF Len(parts) = 1 THEN parts[1]
    ELSE parts[1] \o sep \o join(Tail(parts), sep)

\* v || "default" for a string or undefined v.
orDefault(v) == IF v = Absent \/ v = <<>> THEN DefaultKey ELSE v

\* EMv2: `combined` and `sid` of the next_best_step callback.
combined_EMv2(message, goal, context) ==
    join(filterBoolean(<<message, goal, context>>), <<"\n">>)

sid_EMv2(sessionId) == orDefault(clean_EMv2(sessionId))

\* lockdown: `userText` of the next_best_step callback.
userText_lockdown(message, goal, context) ==
    join(filterBoolean(<<message, goal, context>>), <<" ">>)

\* short copy: `combined` and `sid` of the next_best_step callback.
combined_short(message, goal, context) ==
    trim(join(filterBoolean(<<message, goal, context>>), <<"\n">>))

\* `sid` that ignores the sessionId argument.
sid_short_ignoresArgument(sessionId) == DefaultKey

sid_short(sessionId) == orDefault(trim(orDefault(sessionId)))

\* state reply: `combined` and `sid` of the next_best_step callback.
combined_reply(message, goal, context) ==
    trim(join(filterBoolean(<<message, goal, context>>), <<"\n">>))

sid_reply(sessionId) == orDefault(trim(orDefault(sessionId)))

\* POST /message: `sessionId`, from the X-Session-Id header.
sessionId_message(header) == orDefault(header)

---------------------------------------------------------------------------
(* The sessions Map.  A session is [count, lastState]; get-or-create reads *)
(* a missing key as a fresh session with count 0.                          *)

HasSession(sess, k) == k \in DOMAIN sess

\* sessions.get(k) || { count: 0 }
getOrFresh(sess, k) ==
    IF HasSession(sess, k) THEN sess[k] ELSE [count |-> 0, lastState |-> Undefined]

\* sessions.set(k, s)
mapSet(sess, k, s) == [x \in DOMAIN sess \cup {k} |-> IF x = k THEN s ELSE sess[x]]

\* The count of key k, 0 when the key has never been observed.
countOf(sess, k) == getOrFresh(sess, k).count

\* bumpSession without its sessions.set: a fresh session is never stored.
bumpSession_notStored(sess, sessionId) ==
    LET s == getOrFresh(sess, sessionId)
    IN  [sessions |-> sess, count |-> s.count + 1]

\* EMv2: bumpSession returns the new count; the Map holds the bumped session.
bumpSession(sess, sessionId) ==
    LET s == getOrFresh(sess, sessionId)
    IN  [sessions |-> mapSet(sess, sessionId, [s EXCEPT !.count = @ + 1]),
         count |-> s.count + 1]

\* buildToolContent that uses the count bumpSession returns to append a
\* call to action from the third call of a session on.
buildToolContent_ctaFromThird(sess, state, sessionId) ==
    LET b == bumpSession(sess, sessionId)
    IN  [sessions |-> b.sessions, count |-> b.count, cta |-> b.count >= 3,
         text |-> IF b.count >= 3 THEN text_EMv2(state) \o cta_short ELSE text_EMv2(state)]

\* EMv2: buildToolContent bumps the session; its text carries no call to action.
buildToolContent(sess, state, sessionId) ==
    LET b == bumpSession(sess, sessionId)
    IN  [sessions |-> b.sessions, count |-> b.count, cta |-> FALSE,
         text |-> text_EMv2(state)]

\* short copy: buildShortReply increments, records lastState, and appends
\* the call to action from the third reply on.
buildShortReply(sess, state, sessionId) ==
    LET old == getOrFresh(sess, sessionId)
        session == [count |-> old.count + 1, lastState |-> state]
        r == stateResponses_short(state)
        text == r.text \o <<"\n","\n">> \o r.question
    IN  [sessions |-> mapSet(sess, sessionId, session),
         count |-> session.count,
         cta |-> session.count >= 3,
         text |-> IF session.count >= 3 THEN text \o cta_short ELSE text]

\* state reply: the text of buildStateReply before the call to action, a
\* markdown image followed by the message of the state.
text_reply(state, baseUrl) ==
    LET r == stateResponses_reply(state)
        imageUrl == baseUrl \o <<"/","i","m","a","g","e","s","/">> \o r.imageFile
    IN  <<"!","[">> \o state_text(state) \o <<"]","(">> \o imageUrl \o <<")","\n","\n">> \o r.message

\* buildStateReply that starts every call from a fresh session object
\* instead of the one stored in the Map.
buildStateReply_alwaysFresh(sess, state, sessionId, baseUrl) ==
    LET session == [count |-> 1, lastState |-> state]
    IN  [sessions |-> mapSet(sess, sessionId, session),
         count |-> session.count,
         cta |-> session.count >= 3,
         text |-> text_reply(state, baseUrl)]

\* state reply: buildStateReply, the same bookkeeping as buildShortReply.
buildStateReply(sess, state, sessionId, baseUrl) ==
    LET old == getOrFresh(sess, sessionId)
        session == [count |-> old.count + 1, lastState |-> state]
        text == text_reply(state, baseUrl)
    IN  [sessions |-> mapSet(sess, sessionId, session),
         count |-> session.count,
         cta |-> session.count >= 3,
         text |-> IF session.count >= 3 THEN text \o cta_reply ELSE text]

\* getStateResponse that waits for the fourth reply before it appends the
\* call to action.
getStateResponse_ctaFromFourth(sess, state, sessionId) ==
    LET created == IF HasSession(sess, sessionId) THEN sess
                   ELSE mapSet(sess, sessionId, [count |-> 0, lastState |-> Undefined])
        session == [count |-> created[sessionId].count + 1, lastState |-> state]
        response == stateResponses_message(state)
        fullResponse == <<"!","[">> \o state_text(state) \o <<"]","(">> \o response.imagePath
                        \o <<")","\n","\n">> \o response.message
    IN  [sessions |-> mapSet(created, sessionId, session),
         count |-> session.count,
         cta |-> session.count >= 4,
         text |-> IF session.count >= 4 THEN fullResponse \o cta_message
                  ELSE fullResponse]

\* POST /message: getStateResponse creates the session if missing, then
\* increments responseCount and records lastState.
getStateResponse(sess, state, sessionId) ==
    LET created == IF HasSession(sess, sessionId) THEN sess
                   ELSE mapSet(sess, sessionId, [count |-> 0, lastState |-> Undefined])
        session == [count |-> created[sessionId].count + 1, lastState |-> state]
        response == stateResponses_message(state)
        fullResponse == <<"!","[">> \o state_text(state) \o <<"]","(">> \o response.imagePath
                        \o <<")","\n","\n">> \o response.message
    IN  [sessions |-> mapSet(created, sessionId, session),
         count |-> session.count,
         cta |-> session.count >= 3,
         text |-> IF session.count >= 3 THEN fullResponse \o cta_message
                  ELSE fullResponse]

---------------------------------------------------------------------------
(* The request handlers of the revisions that keep a sessions Map.  Each   *)
(* returns the Map it leaves behind and what it composed: the key it used, *)
(* the interaction count the reply was composed with, the detected state   *)
(* and whether the call to action was appended.                            *)

SessionRevs == {"EMv2", "short", "reply", "message"}

\* A POST /message body without a messages array.
NoMessages == <<"no messages array">>

Rejected(sess) ==
    [sessions |-> sess, status |-> "400", sid |-> Absent, count |-> 0,
     state |-> Undefined, cta |-> FALSE, text |-> <<>>]

Composed(c, sid, state) ==
    [sessions |-> c.sessions, status |-> "200", sid |-> sid, count |-> c.count,
     state |-> state, cta |-> c.cta, text |-> c.text]

next_best_step_EMv2(sess, message, goal, context, sessionId) ==
    LET combined == combined_EMv2(message, goal, context)
        state == detectState_EMv2(combined)
        sid == sid_EMv2(sessionId)
    IN  Composed(buildToolContent(sess, state, sid), sid, state)

next_best_step_short(sess, message, goal, context, sessionId) ==
    LET combined == combined_short(message, goal, context)
        state == detectUserState_short(combined)
        sid == sid_short(sessionId)
    IN  Composed(buildShortReply(sess, state, sid), sid, state)

next_best_step_reply(sess, message, goal, context, sessionId, baseUrl) ==
    LET combined == combined_reply(message, goal, context)
        state == detectUserState_reply(combined)
        sid == sid_reply(sessionId)
        url == url_reply(baseUrl)
    IN  Composed(buildStateReply(sess, state, sid, url), sid, state)

\* A POST /message body whose messages field is present but not an array.
NotAnArray == <<"messages is not an array">>

\* What app.post('/message') finds in req.body.messages when it cannot use it.
InvalidMessages == {NoMessages, NotAnArray}

\* POST /message that looks at the shape of the body only after it has
\* composed the reply.
postMessage_validatesLate(sess, message, header) ==
    LET userMessage == IF message \in InvalidMessages THEN <<>> ELSE StringOrEmpty(message)
        sessionId == sessionId_message(header)
        detectedState == detectUserState_message(userMessage)
        c == getStateResponse(sess, detectedState, sessionId)
    IN  IF message \in InvalidMessages THEN Rejected(c.sessions)
        ELSE Composed(c, sessionId, detectedState)

\* app.post('/message'): `message` is the text of the last message (Absent
\* when there is none), or NoMessages / NotAnArray when the body has no
\* messages array.
postMessage(sess, message, header) ==
    IF message \in InvalidMessages THEN Rejected(sess)
    ELSE LET userMessage == StringOrEmpty(message)
             sessionId == sessionId_message(header)
             detectedState == detectUserState_message(userMessage)
         IN  Composed(getStateResponse(sess, detectedState, sessionId),
                      sessionId, detectedState)

handle(r, sess, req) ==
    CASE r = "EMv2" ->
           next_best_step_EMv2(sess, req.message, req.goal, req.context, req.sessionId)
      [] r = "short" ->
           next_best_step_short(sess, req.message, req.goal, req.context, req.sessionId)
      [] r = "reply" ->
           next_best_step_reply(sess, req.message, req.goal, req.context, req.sessionId,
                                req.baseUrl)
      [] r = "message" ->
           postMessage(sess, req.message, req.sessionId)

\* The key the revision's handler uses for a caller-supplied key.
sidOf(r, key) ==
    CASE r = "EMv2" -> sid_EMv2(key)
      [] r = "short" -> sid_short(key)
      [] r = "reply" -> sid_reply(key)
      [] r = "message" -> sessionId_message(key)

---------------------------------------------------------------------------
(* Requests.  A request is received (it joins `pending`) and later its     *)
(* handler runs to completion in one step: the callbacks contain no await  *)
(* between reading and writing the Map, and Node runs one callback at a    *)
(* time.                                                                   *)

SessionKeys == {Absent, <<"a">>, <<" ","a">>, <<"b">>, DefaultKey}

\* Requests of the sequential runs: every key with one message, and one key
\* with the input split over two fields.
SeqShapes(r) ==
    [sessionId : SessionKeys, message : {<<"s","t","u","c","k">>}, goal : {Absent}, context : {Absent},
     baseUrl : {Absent}]
    \cup
    [sessionId : {<<"a">>}, message : {<<"t","o","o">>}, goal : {Absent, <<"m","u","c","h">>}, context : {Absent},
     baseUrl : {Absent}]
    \cup
    (IF r = "message"
     THEN [sessionId : {<<"a">>}, message : InvalidMessages, goal : {Absent}, context : {Absent},
           baseUrl : {Absent}]
     ELSE IF r = "reply"
     THEN [sessionId : {<<"b">>}, message : {<<"r","e","a","d","y">>}, goal : {Absent}, context : {Absent},
           baseUrl : {<<" ","h","t","t","p",":","/","/","h"," ">>}]
     ELSE {})

\* Requests of the concurrent runs: two keys, one message.
ConcShapes ==
    [sessionId : {<<"a">>, <<"b">>}, message : {<<"s","t","u","c","k">>}, goal : {Absent}, context : {Absent},
     baseUrl : {Absent}]

InitSessions ==
    /\ rev \in SessionRevs
    /\ input = <<>>
    /\ detected = Undefined
    /\ pc = "serving"
    /\ sessions = NoSessions
    /\ interactionCount = 0
    /\ pending = {}
    /\ served = <<>>
    /\ nextId = 1
    /\ outcome = "none"
    /\ NoHttp

\* A request arrives while others may still be waiting for their handler.
Receive(shape) ==
    /\ nextId <= MaxCalls
    /\ pending' = pending \cup {[id |-> nextId, args |-> shape]}
    /\ nextId' = nextId + 1
    /\ UNCHANGED <<rev, input, detected, pc, sessions, interactionCount, served, outcome>>
    /\ UNCHANGED httpVars

\* A caller sends its next request only after the previous one was answered.
ReceiveSeq(shape) ==
    /\ pending = {}
    /\ Receive(shape)

\* The handler of a pending request runs.
Handle(req) ==
    /\ req \in pending
    /\ LET out == handle(rev, sessions, req.args)
       IN  /\ sessions' = out.sessions
           /\ outcome' = out.status
           /\ served' = IF out.status = "200"
                        THEN Append(served,
                                 [id |-> req.id, key |-> req.args.sessionId,
                                  sid |-> out.sid, count |-> out.count,
                                  state |-> out.state, cta |-> out.cta,
                                  text |-> out.text])
                        ELSE served
    /\ pending' = pending \ {req}
    /\ UNCHANGED <<rev, input, detected, pc, interactionCount, nextId>>
    /\ UNCHANGED httpVars

NextSeq ==
    \/ \E shape \in SeqShapes(rev) : ReceiveSeq(shape)
    \/ \E req \in pending : Handle(req)

SpecSeq == InitSessions /\ [][NextSeq]_vars

NextConc ==
    \/ \E shape \in ConcShapes : Receive(shape)
    \/ \E req \in pending : Handle(req)

SpecConc == InitSessions /\ [][NextConc]_vars


---------------------------------------------------------------------------
(* The content list of a tool result.  The image of a state is read from   *)
(* the disk at every call, so what the disk holds is an input of the call. *)

\* What the disk holds for an image file when a call reads it.
FileStates == {"missing", "empty", "png"}

\* null of JavaScript.
Null == <<"null">>

\* EMv2: loadPngBase64; the short copy's loadImageBase64 is the same.  The
\* base64 text of an empty file is the empty string.
loadPngBase64(file) ==
    IF file = "missing" THEN Null
    ELSE IF file = "empty" THEN <<>>
    ELSE <<"i","V","B","O","R","w","0","K","G","g","o","=">>

\* if (base64): neither null nor the empty string.
truthy(v) == v # Null /\ v # <<>>

imageItem(data) == [type |-> "image", mimeType |-> "image/png", data |-> data]

textItem(text) == [type |-> "text", text |-> text]

\* EMv2: the content list buildToolContent returns.
content_EMv2(state, text, file) ==
    LET spec == STATE_CONTENT(state)
        base64 == loadPngBase64(file)
        first == IF truthy(base64)
                 THEN imageItem(base64)
                 ELSE textItem(cap(<<"[","E","M","v","2","]"," ","M","i","s","s","i","n","g"," ","i","m","a","g","e"," ","f","i","l","e",":"," ">> \o spec.imageFile, 120))
    IN  <<first, textItem(text)>>

\* short copy: the content list of the handler around buildShortReply's text.
content_short(text, file) ==
    LET base64 == loadPngBase64(file)
    IN  (IF truthy(base64) THEN <<imageItem(base64)>> ELSE <<>>) \o <<textItem(text)>>

\* state reply: the handler returns the text alone.
content_reply(text) == <<textItem(text)>>

\* The content list of revision r for a composed reply.
contentOf(r, out, file) ==
    CASE r = "EMv2" -> content_EMv2(out.state, out.text, file)
      [] r = "short" -> content_short(out.text, file)
      [] r = "reply" -> content_reply(out.text)

ContentRevs == {"EMv2", "short", "reply"}

\* Tool calls of the content runs: one key with a message for every state,
\* and a second key.
ContentShapes ==
    [sessionId : {<<"a">>},
     message : {<<"t","o","o"," ","m","u","c","h">>, <<"s","t","u","c","k">>, <<"r","e","a","d","y">>, <<"h","m">>},
     goal : {Absent}, context : {Absent}, baseUrl : {Absent}]
    \cup
    [sessionId : {<<"b">>}, message : {<<"s","t","u","c","k">>},
     goal : {Absent}, context : {Absent}, baseUrl : {Absent}]

\* What a call of revision r can find on the disk; the state reply reads
\* no file.
FilesRead(r) == IF r = "reply" THEN {"unread"} ELSE FileStates

InitContent ==
    /\ InitSessions
    /\ rev \in ContentRevs

\* A tools/call of next_best_step from arrival to result: the callback and
\* the content list it returns.
ToolCall(shape, file) ==
    /\ nextId <= MaxToolCalls
    /\ LET out == handle(rev, sessions, shape)
       IN  /\ sessions' = out.sessions
           /\ outcome' = out.status
           /\ served' = Append(served,
                            [id |-> nextId, key |-> shape.sessionId,
                             sid |-> out.sid, count |-> out.count,
                             state |-> out.state, file |-> file,
                             content |-> contentOf(rev, out, file)])
    /\ nextId' = nextId + 1
    /\ UNCHANGED <<rev, input, detected, pc, interactionCount, pending>>
    /\ UNCHANGED httpVars

NextContent == \E shape \in ContentShapes, file \in FilesRead(rev) : ToolCall(shape, file)

SpecContent == InitContent /\ [][NextContent]_vars
---------------------------------------------------------------------------
(* part_000: the output lockdown, removeBadStuff and hardCap, and the      *)
(* locked response built from them.                                        *)

\* The characters of the bullet class of removeBadStuff.
Bullets == {"U+2022", "U+2023", "U+25E6", "U+2043", "U+2219",
            "U+25CF", "U+25AA", "U+FE0E"}

\* .replace(/(\r\n|\n|\r)/g, " ")
newlinesToSpaces(s) ==
    flatten([i \in 1..Len(s) |->
                IF s[i] = "\n" /\ i > 1 /\ s[i - 1] = "\r" THEN <<>>
                ELSE IF s[i] \in {"\n", "\r"} THEN <<" ">>
                ELSE <<s[i]>>])

\* .replace(/\s{2,}/g, " ")
collapseRuns(s) ==
    flatten([i \in 1..Len(s) |->
                IF ~ IsSpace(s[i]) THEN <<s[i]>>
                ELSE IF i > 1 /\ IsSpace(s[i - 1]) THEN <<>>
                ELSE IF i < Len(s) /\ IsSpace(s[i + 1]) THEN <<" ">>
                ELSE <<s[i]>>])

\* removeBadStuff without its last two steps, the collapse of whitespace
\* runs and the trim.
removeBadStuff_noFinalCollapse(s) ==
    LET a == clean_lockdown(s)
        b == SelectSeq(a, LAMBDA c : c \notin Bullets)
        c == newlinesToSpaces(b)
        d == SelectSeq(c, LAMBDA ch : ch # "?")
        e == SelectSeq(d, LAMBDA ch : ch # ":")
    IN  [i \in 1..Len(e) |-> IF e[i] = "-" THEN " " ELSE e[i]]

\* removeBadStuff without the step that removes question marks.
removeBadStuff_keepsQuestions(s) ==
    LET a == clean_lockdown(s)
        b == SelectSeq(a, LAMBDA c : c \notin Bullets)
        c == newlinesToSpaces(b)
        e == SelectSeq(c, LAMBDA ch : ch # ":")
        f == [i \in 1..Len(e) |-> IF e[i] = "-" THEN " " ELSE e[i]]
    IN  trim(collapseRuns(f))

removeBadStuff(s) ==
    LET a == clean_lockdown(s)
        b == SelectSeq(a, LAMBDA c : c \notin Bullets)
        c == newlinesToSpaces(b)
        d == SelectSeq(c, LAMBDA ch : ch # "?")
        e == SelectSeq(d, LAMBDA ch : ch # ":")
        f == [i \in 1..Len(e) |-> IF e[i] = "-" THEN " " ELSE e[i]]
    IN  trim(collapseRuns(f))

\* The ellipsis hardCap appends.
Ellipsis == <<"U+2026">>

\* hardCap that cuts at max characters and then appends the ellipsis.
hardCap_cutsAtMax(s, max) ==
    LET t == removeBadStuff(s)
    IN  IF Len(t) <= max THEN t
        ELSE trimEnd(slice0(t, max)) \o Ellipsis

hardCap(s, max) ==
    LET t == removeBadStuff(s)
    IN  IF Len(t) <= max THEN t
        ELSE trimEnd(slice0(t, max - 1)) \o Ellipsis

\* The calls hardCap(s, max) makes on text, in order: the sanitizer on its
\* argument, then the length test and the cut on what the sanitizer returned.
hardCapCalls(s, max) ==
    << [op |-> "removeBadStuff", in |-> s, out |-> removeBadStuff(s)],
       [op |-> "cap", in |-> removeBadStuff(s), out |-> hardCap(s, max)] >>

\* process.env.PUBLIC_ORIGIN is not set.
ORIGIN == <<"h","t","t","p","s",":","/","/","e","l","i","t","e","m","i","n","d","s","e","t","-","c","h","a","t","g","p","t","-","a","p","p",".","o","n","r","e","n","d","e","r",".","c","o","m">>

ACTIONS_lockdown(state) ==
    CASE state = OVERWHELMED ->
           <<"S","e","t"," ","a"," ","5"," ","m","i","n","u","t","e"," ","t","i","m","e","r"," ","a","n","d"," ","d","o"," ","t","h","e"," ","s","m","a","l","l","e","s","t"," ","t","a","s","k"," ","t","h","a","t"," ","l","o","w","e","r","s"," ","y","o","u","r"," ","s","t","r","e","s","s"," ","r","i","g","h","t"," ","n","o","w",".">>
      [] state = STUCK ->
           <<"O","p","e","n"," ","t","h","e"," ","t","a","s","k"," ","a","n","d"," ","d","o"," ","a"," ","2"," ","m","i","n","u","t","e"," ","v","e","r","s","i","o","n"," ","o","f"," ","i","t"," ","w","i","t","h"," ","z","e","r","o"," ","p","r","e","s","s","u","r","e"," ","t","o"," ","f","i","n","i","s","h",".">>
      [] state = READY ->
           <<"W","r","i","t","e"," ","y","o","u","r"," ","n","e","x","t"," ","m","i","c","r","o"," ","a","c","t","i","o","n"," ","i","n"," ","7"," ","w","o","r","d","s"," ","o","r"," ","l","e","s","s"," ","a","n","d"," ","d","o"," ","i","t"," ","i","m","m","e","d","i","a","t","e","l","y",".">>
      [] state = UNCLEAR ->
           <<"C","h","o","o","s","e"," ","o","n","e"," ","o","u","t","c","o","m","e"," ","f","o","r"," ","t","h","e"," ","n","e","x","t"," ","1","5"," ","m","i","n","u","t","e","s"," ","a","n","d"," ","i","g","n","o","r","e"," ","e","v","e","r","y","t","h","i","n","g"," ","e","l","s","e",".">>

IMAGES_lockdown(state) ==
    CASE state = OVERWHELMED -> <<"o","v","e","r","w","h","e","l","m","e","d",".","p","n","g">>
      [] state = STUCK -> <<"s","t","u","c","k",".","p","n","g">>
      [] state = READY -> <<"r","e","a","d","y","-","t","o","-","a","c","t",".","p","n","g">>
      [] state = UNCLEAR -> <<"u","n","c","l","e","a","r","-","d","i","r","e","c","t","i","o","n",".","p","n","g">>

\* buildLockedResponse from the detected state on: the sentence, the
\* markdown text around it, the returned string, and the calls made on text.
lockedFor ==
    [state \in States |->
        LET imageUrl == ORIGIN \o <<"/","i","m","a","g","e","s","/">> \o IMAGES_lockdown(state)
            sentence == hardCap(ACTIONS_lockdown(state), 160)
            text == <<"!","[","]","(">> \o imageUrl \o <<")"," ">> \o sentence
        IN  [state |-> state, imageUrl |-> imageUrl, sentence |-> sentence,
             text |-> text, locked |-> hardCap(text, 260),
             calls |-> hardCapCalls(ACTIONS_lockdown(state), 160) \o hardCapCalls(text, 260)]]

buildLockedResponse(userText) == lockedFor[detectState_lockdown(userText)]

\* The next_best_step callback of the lockdown revision.
next_best_step_lockdown(message, goal, context) ==
    buildLockedResponse(userText_lockdown(message, goal, context))


---------------------------------------------------------------------------
(* Streamable HTTP: POST, GET and DELETE /mcp of the next_best_step        *)
(* revisions.  The registry httpTransports maps the session id of a        *)
(* transport to the transport; a transport is identified by its id.  What  *)
(* the transport does with a request it is handed is the SDK's business:   *)
(* the model keeps the callbacks this code registers (onsessioninitialized,*)
(* onclose, the tool callback) and lets server.connect and handleRequest   *)
(* throw.                                                                  *)

McpRevs == {"EMv2", "lockdown", "short", "reply"}

\* The n-th id randomUUID returns.
uuid(n) == <<"u", <<"1", "2", "3", "4", "5", "6", "7", "8", "9">>[n]>>

\* Where a request can be made to throw: nowhere, in server.connect, or in
\* transport.handleRequest.
Faults == {"none", "connect", "handleRequest"}

\* isInitializeRequest(req.body)
isInitializeRequest(body) == body.method = "initialize"

\* body?.method === "tools/call" && body?.params?.name === "next_best_step"
isNextBestStepCall(body) == body.method = "tools/call" /\ body.name = "next_best_step"

\* A lookup that tests only that the request carries the header.
registered_headerOnly(registry, header) == header # Absent

\* sessionIdHeader && httpTransports[sessionIdHeader]: the header names a
\* transport of the registry.
registered(registry, header) == header # Absent /\ header \in registry

\* POST /mcp that leaves the caller's arguments as they came.
injectArguments_callerKept(r, body, sessionId, header) == body

\* POST /mcp: the arguments of a next_best_step call get the session id of
\* the transport (and, in the state reply, the base URL of the request);
\* the lockdown revision injects nothing.
injectArguments(r, body, sessionId, header) ==
    IF r = "lockdown" \/ ~ isNextBestStepCall(body) THEN body
    ELSE IF r = "reply"
    THEN [body EXCEPT !.arguments.sessionId =
                          IF sessionId # Absent /\ sessionId # <<>> THEN sessionId
                          ELSE orDefault(header),
                      !.arguments.baseUrl = <<"h","t","t","p","s",":","/","/","h">>]
    ELSE [body EXCEPT !.arguments.sessionId = orDefault(sessionId)]

\* The tool callback the transport runs for a next_best_step call: the
\* sessions Map it leaves behind.
toolCallback(r, sess, body) ==
    IF ~ isNextBestStepCall(body) \/ r = "lockdown" THEN sess
    ELSE handle(r, sess, body.arguments).sessions

\* Whether ensureStreamableTransport is called inside the try block of
\* app.post("/mcp"): in the state reply it is called before the try.
ensureInsideTry(r) == r # "reply"

\* transport.onclose that also forgets the session counter of the id.
onclose_dropsSession(registry, sess, sessionId) ==
    [httpTransports |-> registry \ {sessionId},
     sessions |-> [k \in DOMAIN sess \ {sessionId} |-> sess[k]]]

\* transport.onclose: if (transport.sessionId) delete httpTransports[...]
onclose(registry, sess, sessionId) ==
    [httpTransports |-> IF sessionId # Absent THEN registry \ {sessionId} ELSE registry,
     sessions |-> sess]

\* What the route handler did with a request.
Disposed(method, header, body, threw, status, handed, created) ==
    [method |-> method, header |-> header, body |-> body, fails |-> threw,
     status |-> status, transport |-> handed, created |-> created]

\* The bodies of the POST requests: an initialize request, a call of
\* next_best_step with or without a sessionId argument, a call of another
\* tool, and another method.
CallArguments ==
    [sessionId : {Absent} \cup {uuid(n) : n \in 1..MaxTransports},
     message : {<<"s","t","u","c","k">>}, goal : {Absent}, context : {Absent}, baseUrl : {Absent}]

Bodies ==
    [method : {"tools/call"}, name : {"next_best_step"}, arguments : CallArguments]
    \cup
    [method : {"initialize", "tools/list"}, name : {Absent}, arguments : {NoArguments}]
    \cup
    [method : {"tools/call"}, name : {"other_tool"}, arguments : {NoArguments}]

\* The Mcp-Session-Id headers: none, or an id.
Headers == {Absent} \cup {uuid(n) : n \in 1..MaxTransports}

InitMcp ==
    /\ rev \in McpRevs
    /\ input = <<>>
    /\ detected = Undefined
    /\ pc = "serving"
    /\ sessions = NoSessions
    /\ interactionCount = 0
    /\ pending = {}
    /\ served = <<>>
    /\ nextId = 1
    /\ outcome = "none"
    /\ NoHttp

\* app.post("/mcp"): ensureStreamableTransport, the injection, and
\* transport.handleRequest, which on an initialize request generates the
\* session id and registers the transport (onsessioninitialized) and on a
\* next_best_step call runs the tool callback.
PostMcp(header, body, fault) ==
    /\ nextId <= MaxCalls
    /\ LET existing == registered(httpTransports, header)
           opens == ~ existing /\ header = Absent /\ isInitializeRequest(body)
           connectThrew == opens /\ fault = "connect"
           handed == existing \/ (opens /\ ~ connectThrew)
           handleThrew == handed /\ fault = "handleRequest"
           sessionId == IF existing THEN header ELSE Absent
           injected == injectArguments(rev, body, sessionId, header)
           registers == opens /\ handed /\ ~ handleThrew
           status == IF connectThrew
                     THEN (IF ensureInsideTry(rev) THEN "500" ELSE "uncaught")
                     ELSE IF ~ handed THEN "400"
                     ELSE IF handleThrew THEN "500"
                     ELSE "200"
       IN  /\ opens => generated < MaxTransports
           /\ fault = "connect" => opens
           /\ fault = "handleRequest" => handed
           /\ httpTransports' = IF registers
                                THEN httpTransports \cup {uuid(generated + 1)}
                                ELSE httpTransports
           /\ generated' = IF registers THEN generated + 1 ELSE generated
           /\ sessions' = IF existing /\ ~ handleThrew
                          THEN toolCallback(rev, sessions, injected)
                          ELSE sessions
           /\ lastHttp' = Disposed("POST", header, body, fault, status,
                                   IF existing THEN header
                                   ELSE IF registers THEN uuid(generated + 1)
                                   ELSE IF handed THEN <<"n","e","w">>
                                   ELSE Absent,
                                   opens)
           /\ outcome' = status
    /\ nextId' = nextId + 1
    /\ UNCHANGED <<rev, input, detected, pc, interactionCount, pending, served>>

\* app.get("/mcp") and app.delete("/mcp"): handleMcpSessionRequest, which
\* has no try block.
SessionRequest(method, header, fault) ==
    /\ nextId <= MaxCalls
    /\ LET handed == registered(httpTransports, header)
           status == IF ~ handed THEN "400"
                     ELSE IF fault = "handleRequest" THEN "uncaught"
                     ELSE "200"
       IN  /\ fault # "connect"
           /\ fault = "handleRequest" => handed
           /\ lastHttp' = Disposed(method, header, NoBody, fault, status,
                                   IF handed THEN header ELSE Absent, FALSE)
           /\ outcome' = status
    /\ nextId' = nextId + 1
    /\ UNCHANGED <<rev, input, detected, pc, sessions, interactionCount, pending, served,
                   httpTransports, generated>>

\* A registered transport closes (the client sent DELETE or went away):
\* its onclose callback runs.
TransportClose(sessionId) ==
    /\ sessionId \in httpTransports
    /\ LET after == onclose(httpTransports, sessions, sessionId)
       IN  /\ httpTransports' = after.httpTransports
           /\ sessions' = after.sessions
    /\ UNCHANGED <<rev, input, detected, pc, interactionCount, pending, served, nextId,
                   outcome, generated, lastHttp>>

NextMcp ==
    \/ \E header \in Headers, body \in Bodies, fault \in Faults : PostMcp(header, body, fault)
    \/ \E method \in {"GET", "DELETE"}, header \in Headers, fault \in Faults :
           SessionRequest(method, header, fault)
    \/ \E sessionId \in httpTransports : TransportClose(sessionId)

SpecMcp == InitMcp /\ [][NextMcp]_vars
---------------------------------------------------------------------------
(* Messages and calls to action of the get_micro_action revisions.         *)

\* server.ts: stateMessages
stateMessages_micro(state) ==
    CASE state = "overwhelmed" ->
           <<"Y","o","u","'","r","e"," ","o","v","e","r","l","o","a","d","e","d","."," ","N","o","t"," ","s","t","u","c","k",".","\n","\n","P","i","c","k"," ","O","N","E"," ","t","h","i","n","g","."," ","D","o"," ","i","t"," ","f","o","r"," ","5"," ","m","i","n","u","t","e","s","."," ","S","t","o","p",".","\n","\n","R","e","p","l","y"," ","w","h","e","n"," ","d","o","n","e",".">>
      [] state = "stuck" ->
           <<"Y","o","u"," ","m","o","v","e","d","."," ","G","o","o","d",".","\n","\n","D","o"," ","O","N","E"," ","m","o","r","e"," ","m","i","c","r","o","-","a","c","t","i","o","n"," ","n","o","w",":","\n","-"," ","R","e","n","a","m","e"," ","a"," ","f","i","l","e","\n","-"," ","W","r","i","t","e"," ","o","n","e"," ","s","e","n","t","e","n","c","e"," "," ","\n","-"," ","S","e","n","d"," ","o","n","e"," ","e","m","a","i","l","\n","\n","R","e","p","l","y",":"," ","D","O","N","E">>
      [] state = "ready_to_act" ->
           <<"K","e","e","p"," ","m","o","v","i","n","g",".","\n","\n","N","e","x","t"," ","m","i","c","r","o","-","a","c","t","i","o","n","."," ","6","0"," ","s","e","c","o","n","d","s","."," ","G","o",".","\n","\n","R","e","p","l","y"," ","w","h","e","n"," ","d","o","n","e",".">>
      [] state = "unclear_direction" ->
           <<"L","i","s","t"," ","y","o","u","r"," ","t","o","p"," ","3"," ","c","o","n","c","e","r","n","s",".","\n","\n","I","'","l","l"," ","s","h","o","w"," ","y","o","u"," ","w","h","a","t"," ","m","a","t","t","e","r","s"," ","m","o","s","t",".","\n","\n","O","n","e"," ","f","o","c","u","s"," ","b","e","a","t","s"," ","t","h","r","e","e"," ","g","u","e","s","s","e","s",".">>

\* server.ts and part_003: the soft call to action of the 3rd and 4th call.
softCta == <<"\n","\n","U+2728"," ","Y","o","u","'","r","e"," ","b","u","i","l","d","i","n","g"," ","m","o","m","e","n","t","u","m","."," ","W","a","n","t"," ","t","o"," ","s","e","e"," ","w","h","a","t"," ","c","l","a","r","i","t","y"," ","l","o","o","k","s"," ","l","i","k","e"," ","w","h","e","n"," ","i","t","'","s"," ","a"," ","d","a","i","l","y"," ","h","a","b","i","t","?","\n","U+2192"," ","E","l","i","t","e","M","i","n","d","s","e","t",".","a","i">>

\* server.ts and part_003: the stronger call to action, from the 5th call on.
strongCta == <<"\n","\n","U+2728"," ","M","o","t","i","o","n"," ","b","e","a","t","s"," ","p","e","r","f","e","c","t","i","o","n","."," ","C","l","a","r","i","t","y"," ","b","e","a","t","s"," ","c","h","a","o","s",".","\n","M","a","k","e"," ","t","h","i","s"," ","y","o","u","r"," ","d","a","i","l","y"," ","e","d","g","e"," ","U+2192"," ","E","l","i","t","e","M","i","n","d","s","e","t",".","a","i">>

\* part_003: stateMessages
stateMessages_crisp(state) ==
    CASE state = "overwhelmed" ->
           <<"Y","o","u","'","r","e"," ","o","v","e","r","l","o","a","d","e","d","."," ","N","o","t"," ","s","t","u","c","k",".","\n","P","i","c","k"," ","O","N","E"," ","t","h","i","n","g","."," ","D","o"," ","i","t"," ","f","o","r"," ","5"," ","m","i","n","u","t","e","s","."," ","S","t","o","p",".","\n","R","e","p","l","y"," ","w","h","e","n"," ","d","o","n","e",".">>
      [] state = "stuck" ->
           <<"Y","o","u"," ","m","o","v","e","d","."," ","G","o","o","d",".","\n","D","o"," ","O","N","E"," ","m","o","r","e"," ","m","i","c","r","o","-","a","c","t","i","o","n"," ","n","o","w",".","\n","R","e","n","a","m","e"," ","a"," ","f","i","l","e","."," ","W","r","i","t","e"," ","o","n","e"," ","s","e","n","t","e","n","c","e","."," ","S","e","n","d"," ","o","n","e"," ","e","m","a","i","l",".","\n","R","e","p","l","y",":"," ","D","O","N","E">>
      [] state = "ready_to_act" ->
           <<"K","e","e","p"," ","m","o","v","i","n","g",".","\n","N","e","x","t"," ","m","i","c","r","o","-","a","c","t","i","o","n","."," ","6","0"," ","s","e","c","o","n","d","s","."," ","G","o",".","\n","R","e","p","l","y"," ","w","h","e","n"," ","d","o","n","e",".">>
      [] state = "unclear_direction" ->
           <<"L","i","s","t"," ","y","o","u","r"," ","t","o","p"," ","3"," ","c","o","n","c","e","r","n","s",".","\n","I","'","l","l"," ","s","h","o","w"," ","y","o","u"," ","w","h","a","t"," ","m","a","t","t","e","r","s"," ","m","o","s","t",".","\n","O","n","e"," ","f","o","c","u","s"," ","b","e","a","t","s"," ","t","h","r","e","e"," ","g","u","e","s","s","e","s",".">>

\* part_004: stateMessages
stateMessages_stdio(state) ==
    CASE state = "overwhelmed" ->
           <<"Y","o","u","'","r","e"," ","f","e","e","l","i","n","g"," ","s","c","a","t","t","e","r","e","d"," ","r","i","g","h","t"," ","n","o","w",","," ","a","n","d"," ","t","h","a","t","'","s"," ","c","o","m","p","l","e","t","e","l","y"," ","o","k","a","y","."," ","L","e","t","'","s"," ","b","r","e","a","k"," ","t","h","i","s"," ","d","o","w","n"," ","i","n","t","o"," ","o","n","e"," ","t","i","n","y",","," ","m","a","n","a","g","e","a","b","l","e"," ","s","t","e","p","."," ","W","h","a","t","'","s"," ","o","n","e"," ","s","m","a","l","l"," ","t","h","i","n","g"," ","y","o","u"," ","c","o","u","l","d"," ","d","o"," ","i","n"," ","t","h","e"," ","n","e","x","t"," ","5"," ","m","i","n","u","t","e","s","?">>
      [] state = "stuck" ->
           <<"B","e","i","n","g"," ","s","t","u","c","k"," ","d","o","e","s","n","'","t"," ","m","e","a","n"," ","y","o","u","'","r","e"," ","f","a","i","l","i","n","g","U+2014","i","t"," ","m","e","a","n","s"," ","y","o","u","'","r","e"," ","a","t"," ","a"," ","d","e","c","i","s","i","o","n"," ","p","o","i","n","t","."," ","L","e","t","'","s"," ","g","e","t"," ","c","u","r","i","o","u","s",":"," ","W","h","a","t","'","s"," ","t","h","e"," ","s","m","a","l","l","e","s","t"," ","e","x","p","e","r","i","m","e","n","t"," ","y","o","u"," ","c","o","u","l","d"," ","t","r","y"," ","r","i","g","h","t"," ","n","o","w","?">>
      [] state = "ready_to_act" ->
           <<"Y","o","u","'","r","e"," ","r","e","a","d","y"," ","t","o"," ","m","o","v","e"," ","f","o","r","w","a","r","d","!"," ","L","e","t","'","s"," ","c","h","a","n","n","e","l"," ","t","h","a","t"," ","e","n","e","r","g","y"," ","i","n","t","o"," ","c","l","e","a","r"," ","a","c","t","i","o","n","."," ","W","h","a","t","'","s"," ","t","h","e"," ","s","i","n","g","l","e"," ","m","o","s","t"," ","i","m","p","o","r","t","a","n","t"," ","t","h","i","n","g"," ","y","o","u"," ","w","a","n","t"," ","t","o"," ","a","c","c","o","m","p","l","i","s","h"," ","n","e","x","t","?">>
      [] state = "unclear_direction" ->
           <<"N","o","t"," ","k","n","o","w","i","n","g"," ","t","h","e"," ","p","a","t","h"," ","f","o","r","w","a","r","d"," ","i","s"," ","a","c","t","u","a","l","l","y"," ","v","a","l","u","a","b","l","e"," ","i","n","f","o","r","m","a","t","i","o","n","."," ","L","e","t","'","s"," ","e","x","p","l","o","r","e",":"," ","W","h","a","t"," ","o","u","t","c","o","m","e"," ","w","o","u","l","d"," ","f","e","e","l"," ","m","e","a","n","i","n","g","f","u","l"," ","t","o"," ","y","o","u"," ","r","i","g","h","t"," ","n","o","w","?">>

\* part_004: the call to action, from the 3rd call on.
cta_stdio == <<"\n","\n","U+2728"," ","R","e","a","d","y"," ","f","o","r"," ","d","e","e","p","e","r"," ","t","r","a","n","s","f","o","r","m","a","t","i","o","n","?"," ","V","i","s","i","t"," ","E","l","i","t","e","M","i","n","d","s","e","t",".","a","i"," ","f","o","r"," ","p","e","r","s","o","n","a","l","i","z","e","d"," ","c","o","a","c","h","i","n","g"," ","p","r","o","g","r","a","m","s",".">>

---------------------------------------------------------------------------
(* part_003: the forced-concision post-processor, enforceCrispOutput.      *)

STYLE ==
    [maxChars |-> 650,
     maxBullets |-> 5,
     maxSentencesPerBullet |-> 2,
     banPhrases |-> << <<"w","h","y"," ","t","h","i","s"," ","w","o","r","k","s">>, <<"t","h","i","s"," ","w","o","r","k","s"," ","b","e","c","a","u","s","e">>, <<"r","e","s","e","a","r","c","h"," ","s","h","o","w","s">>,
                       <<"s","t","u","d","i","e","s"," ","s","h","o","w">>, <<"i","t","'","s"," ","i","m","p","o","r","t","a","n","t"," ","t","o">>, <<"i","n"," ","o","r","d","e","r"," ","t","o">>,
                       <<"y","o","u"," ","m","a","y"," ","w","a","n","t"," ","t","o"," ","c","o","n","s","i","d","e","r">>, <<"c","o","n","s","i","d","e","r"," ","d","o","i","n","g">>,
                       <<"k","e","e","p"," ","i","n"," ","m","i","n","d">>, <<"i","t"," ","i","s"," ","w","o","r","t","h"," ","n","o","t","i","n","g">> >>]

\* The zero-width characters cleanText removes.
ZeroWidth == {"U+200B", "U+200C", "U+200D", "U+FEFF"}

\* The elements of a finite set of integers, in increasing order.
SortedSeq(S) ==
    [j \in 1..Cardinality(S) |-> CHOOSE i \in S : Cardinality({k \in S : k <= i}) = j]

\* [ \t]+\n : character i is a blank of a run of blanks that ends at a newline.
blankBeforeNewline(s, i) ==
    /\ s[i] \in {" ", "\t"}
    /\ \E j \in (i + 1)..Len(s) :
           /\ s[j] = "\n"
           /\ \A k \in i..(j - 1) : s[k] \in {" ", "\t"}

cleanText(v) ==
    LET s0 == StringOrEmpty(v)
        s1 == SelectSeq(s0, LAMBDA c : c \notin ZeroWidth)
        s2 == flatten([i \in 1..Len(s1) |->
                          IF s1[i] = "\r" /\ i < Len(s1) /\ s1[i + 1] = "\n"
                          THEN <<>> ELSE <<s1[i]>>])
        s3 == flatten([i \in 1..Len(s2) |->
                          IF blankBeforeNewline(s2, i) THEN <<>> ELSE <<s2[i]>>])
    IN  trim(s3)

\* \w of a regular expression.
IsWordChar(c) ==
    \/ \E j \in 1..26 : c = Upper[j] \/ c = Lower[j]
    \/ c \in {"0", "1", "2", "3", "4", "5", "6", "7", "8", "9", "_"}

\* out.replace(new RegExp("\\b" + p + "\\b", "gi"), "") for one phrase p.
removePhrase(out, p) ==
    LET low == toLowerCase(out)
        n == Len(p)
        matchAt(i) ==
            /\ low[i] = p[1]
            /\ SubSeq(low, i, i + n - 1) = p
            /\ i = 1 \/ ~ IsWordChar(out[i - 1])
            /\ i + n - 1 = Len(out) \/ ~ IsWordChar(out[i + n])
        starts == {i \in 1..(Len(out) - n + 1) : matchAt(i)}
    IN  IF starts = {} THEN out
        ELSE flatten([i \in 1..Len(out) |->
                         IF \E st \in starts : st <= i /\ i < st + n
                         THEN <<>> ELSE <<out[i]>>])

RECURSIVE removePhrases(_, _)
removePhrases(out, phrases) ==
    IF phrases = <<>> THEN out
    ELSE removePhrases(removePhrase(out, Head(phrases)), Tail(phrases))

removeBannedPhrases(text) ==
    LET out == removePhrases(text, STYLE.banPhrases)
        a == flatten([i \in 1..Len(out) |->
                         IF out[i] = " " /\ i > 1 /\ out[i - 1] = " "
                         THEN <<>> ELSE <<out[i]>>])
        b == flatten([i \in 1..Len(a) |->
                         IF a[i] = "\n" /\ i > 2 /\ a[i - 1] = "\n" /\ a[i - 2] = "\n"
                         THEN <<>> ELSE <<a[i]>>])
    IN  trim(b)

\* split(...).map(trim).filter(Boolean): the maximal runs of characters that
\* are not separators (sep[i] says whether character i is one), trimmed,
\* without the empty ones.
splitTrimmed(s, sep) ==
    LET n == Len(s)
        starts == SortedSeq({i \in 1..n : ~ sep[i] /\ (i = 1 \/ sep[i - 1])})
        ends == SortedSeq({j \in 1..n : ~ sep[j] /\ (j = n \/ sep[j + 1])})
        pieces == [k \in 1..Len(starts) |-> trim(SubSeq(s, starts[k], ends[k]))]
    IN  SelectSeq(pieces, LAMBDA piece : piece # <<>>)

\* The separators of split("\n").
newlines(s) == [i \in 1..Len(s) |-> s[i] = "\n"]

\* The separators of split(/(?<=[.!?])\s+/): the whitespace runs that
\* follow a full stop, an exclamation mark or a question mark.
sentenceBreaks(s) ==
    [i \in 1..Len(s) |->
        /\ IsSpace(s[i])
        /\ \E st \in 2..i :
               /\ s[st - 1] \in {".", "!", "?"}
               /\ \A k \in st..i : IsSpace(s[k])]

IsDigit(c) == c \in {"0", "1", "2", "3", "4", "5", "6", "7", "8", "9"}

\* The number of digits a line starts with.
leadingDigits(l) ==
    CHOOSE n \in 0..Len(l) :
        /\ \A k \in 1..n : IsDigit(l[k])
        /\ n = Len(l) \/ ~ IsDigit(l[n + 1])

\* /^(\-|\*|\u2022)\s+/
hasGlyphMarker(l) ==
    Len(l) >= 2 /\ l[1] \in {"-", "*", "U+2022"} /\ IsSpace(l[2])

\* /^\d+\.\s+/
hasNumberMarker(l) ==
    LET d == leadingDigits(l)
    IN  d >= 1 /\ Len(l) >= d + 2 /\ l[d + 1] = "." /\ IsSpace(l[d + 2])

\* l.replace(/^(\-|\*|\u2022)\s+/, "- ").replace(/^\d+\.\s+/, "- ")
normalizeMarker(l) ==
    LET a == IF hasGlyphMarker(l)
             THEN <<"-"," ">> \o trimStart(SubSeq(l, 2, Len(l))) ELSE l
    IN  IF hasNumberMarker(a)
        THEN <<"-"," ">> \o trimStart(SubSeq(a, leadingDigits(a) + 2, Len(a))) ELSE a

startsWith(s, prefix) ==
    Len(prefix) <= Len(s) /\ SubSeq(s, 1, Len(prefix)) = prefix

splitIntoBullets(text) ==
    LET t == cleanText(text)
        lines == splitTrimmed(t, newlines(t))
        looksBulleted == \E k \in 1..Len(lines) :
                             hasGlyphMarker(lines[k]) \/ hasNumberMarker(lines[k])
        oneLine == flatten([i \in 1..Len(t) |->
                               IF t[i] = "\n"
                               THEN IF i > 1 /\ t[i - 1] = "\n" THEN <<>> ELSE <<" ">>
                               ELSE <<t[i]>>])
        sentences == splitTrimmed(oneLine, sentenceBreaks(oneLine))
    IN  IF looksBulleted
        THEN SelectSeq([k \in 1..Len(lines) |-> normalizeMarker(lines[k])],
                       LAMBDA l : startsWith(l, <<"-"," ">>))
        ELSE [k \in 1..Len(sentences) |-> <<"-"," ">> \o sentences[k]]

capSentencesInBullet(line, maxSentences) ==
    LET body == trim(IF Len(line) >= 2 /\ line[1] = "-" /\ IsSpace(line[2])
                     THEN trimStart(SubSeq(line, 2, Len(line))) ELSE line)
        parts == splitTrimmed(body, sentenceBreaks(body))
        capped == join(SubSeq(parts, 1, IF Len(parts) < maxSentences
                                        THEN Len(parts) ELSE maxSentences), <<" ">>)
    IN  trim(<<"-"," ">> \o capped)

\* out.replace(/\s+\S*$/, ""): the last whitespace run and what follows it.
dropLastWord(out) ==
    LET spaces == {i \in 1..Len(out) : IsSpace(out[i])}
    IN  IF spaces = {} THEN out
        ELSE LET last == CHOOSE i \in spaces : \A j \in spaces : j <= i
                 first == CHOOSE i \in spaces :
                              /\ \A k \in i..last : IsSpace(out[k])
                              /\ i = 1 \/ ~ IsSpace(out[i - 1])
             IN  SubSeq(out, 1, first - 1)

enforceCrispOutput(raw) ==
    LET firstBullets(all) == SubSeq(all, 1, IF Len(all) < STYLE.maxBullets
                                            THEN Len(all) ELSE STYLE.maxBullets)
        capAll(bullets) == [k \in 1..Len(bullets) |->
                      capSentencesInBullet(bullets[k], STYLE.maxSentencesPerBullet)]
        cutTo(out) == IF Len(out) > STYLE.maxChars
                      THEN trim(dropLastWord(trim(slice0(out, STYLE.maxChars))))
                      ELSE out
        orFallback(cut) == IF cut = <<>> THEN <<"-"," ","D","o"," ","o","n","e"," ","s","m","a","l","l"," ","a","c","t","i","o","n"," ","n","o","w",".">> ELSE cut
    \* Each `let`/`const` of the function is one bound variable, innermost first.
    IN  CHOOSE result \in
            {orFallback(cut) : cut \in
                {cutTo(out) : out \in
                    {trim(join(capped, <<"\n">>)) : capped \in
                        {capAll(bullets) : bullets \in
                            {firstBullets(all) : all \in
                                {splitIntoBullets(text) : text \in
                                    {removeBannedPhrases(cleanText(raw))}}}}}}} : TRUE
---------------------------------------------------------------------------
(* The get_micro_action revisions: one module-level interactionCount, a    *)
(* fresh Server and stateless transport for every HTTP request.            *)

MicroRevs == {"micro", "crisp", "stdio"}

CoachingStates == {"overwhelmed", "stuck", "ready_to_act", "unclear_direction"}

ToolFailed(count) ==
    [interactionCount |-> count, status |-> "error", state |-> Undefined,
     cta |-> FALSE, strong |-> FALSE, text |-> <<>>]

\* The two-level handler with the soft call to action kept from the 3rd
\* call on, so that the 5th response carries both.
CallTool_micro_softKept(count, name, current_state) ==
    IF name = "get_micro_action"
    THEN IF current_state \notin CoachingStates
         THEN ToolFailed(count)
         ELSE LET n == count + 1
                  withSoft == IF n >= 3
                              THEN stateMessages_micro(current_state) \o softCta
                              ELSE stateMessages_micro(current_state)
                  response == IF n >= 5 THEN withSoft \o strongCta ELSE withSoft
              IN  [interactionCount |-> n, status |-> "result",
                   state |-> current_state,
                   cta |-> n >= 3,
                   strong |-> n >= 5,
                   text |-> response]
    ELSE ToolFailed(count)

\* The handler of server.ts with interactionCount++ moved ahead of the
\* schema check, so that rejected arguments are counted.
CallTool_micro_countsBeforeParse(count, name, current_state) ==
    IF name = "get_micro_action"
    THEN LET n == count + 1
         IN  IF current_state \notin CoachingStates
             THEN ToolFailed(n)
             ELSE LET withSoft == IF n = 3 \/ n = 4
                                  THEN stateMessages_micro(current_state) \o softCta
                                  ELSE stateMessages_micro(current_state)
                      response == IF n >= 5 THEN withSoft \o strongCta ELSE withSoft
                  IN  [interactionCount |-> n, status |-> "result",
                       state |-> current_state,
                       cta |-> (n = 3 \/ n = 4) \/ n >= 5,
                       strong |-> n >= 5,
                       text |-> response]
    ELSE ToolFailed(count)

\* server.ts: the soft call to action on the 3rd and 4th call, the stronger
\* one from the 5th on.
CallTool_micro(count, name, current_state) ==
    IF name = "get_micro_action"
    THEN IF current_state \notin CoachingStates
         THEN ToolFailed(count)
         ELSE LET n == count + 1
                  withSoft == IF n = 3 \/ n = 4
                              THEN stateMessages_micro(current_state) \o softCta
                              ELSE stateMessages_micro(current_state)
                  response == IF n >= 5 THEN withSoft \o strongCta ELSE withSoft
              IN  [interactionCount |-> n, status |-> "result",
                   state |-> current_state,
                   cta |-> (n = 3 \/ n = 4) \/ n >= 5,
                   strong |-> n >= 5,
                   text |-> response]
    ELSE ToolFailed(count)

\* part_003: `response` of the handler when interactionCount is n, before
\* the post-processor.
response_crisp(state, n) ==
    LET withSoft == IF n = 3 \/ n = 4
                    THEN stateMessages_crisp(state) \o softCta
                    ELSE stateMessages_crisp(state)
    IN  IF n >= 5 THEN withSoft \o strongCta ELSE withSoft

\* part_003: `crispResponse` for every state and every interactionCount a
\* run can reach, computed once.
crispResponses ==
    [state \in CoachingStates, n \in 1..MaxMicroCalls |->
        enforceCrispOutput(response_crisp(state, n))]

\* part_003: the same handler; its text then goes through enforceCrispOutput.
CallTool_crisp(count, name, current_state) ==
    IF name = "get_micro_action"
    THEN IF current_state \notin CoachingStates
         THEN ToolFailed(count)
         ELSE LET n == count + 1
                  crispResponse == crispResponses[current_state, n]
              IN  [interactionCount |-> n, status |-> "result",
                   state |-> current_state,
                   cta |-> (n = 3 \/ n = 4) \/ n >= 5,
                   strong |-> n >= 5,
                   text |-> crispResponse]
    ELSE ToolFailed(count)

\* part_004: one call to action, from the 3rd call on.
CallTool_stdio(count, name, current_state) ==
    IF name = "get_micro_action"
    THEN IF current_state \notin CoachingStates
         THEN ToolFailed(count)
         ELSE LET n == count + 1
                  response == IF n >= 3
                              THEN stateMessages_stdio(current_state) \o cta_stdio
                              ELSE stateMessages_stdio(current_state)
              IN  [interactionCount |-> n, status |-> "result",
                   state |-> current_state,
                   cta |-> n >= 3,
                   strong |-> FALSE,
                   text |-> response]
    ELSE ToolFailed(count)

callTool(r, count, name, current_state) ==
    CASE r = "micro" -> CallTool_micro(count, name, current_state)
      [] r = "crisp" -> CallTool_crisp(count, name, current_state)
      [] r = "stdio" -> CallTool_stdio(count, name, current_state)

\* Who sends a request; the server is never told.
Callers == {"caller1", "caller2"}

ToolNames == {"get_micro_action", "other_tool"}

StateArguments == {"overwhelmed", "stuck", "not_a_state"}

InitMicro ==
    /\ rev \in MicroRevs
    /\ input = <<>>
    /\ detected = Undefined
    /\ pc = "serving"
    /\ sessions = NoSessions
    /\ interactionCount = 0
    /\ pending = {}
    /\ served = <<>>
    /\ nextId = 1
    /\ outcome = "none"
    /\ NoHttp

\* A tools/call request: the CallToolRequestSchema handler from start to end.
CallTool(caller, name, current_state) ==
    /\ nextId <= MaxMicroCalls
    /\ LET out == callTool(rev, interactionCount, name, current_state)
       IN  /\ interactionCount' = out.interactionCount
           /\ outcome' = out.status
           /\ served' = IF out.status = "result"
                        THEN Append(served,
                                 [id |-> nextId, caller |-> caller,
                                  count |-> out.interactionCount,
                                  state |-> out.state, cta |-> out.cta,
                                  strong |-> out.strong, text |-> out.text])
                        ELSE served
    /\ nextId' = nextId + 1
    /\ UNCHANGED <<rev, input, detected, pc, sessions, pending>>
    /\ UNCHANGED httpVars

NextMicro ==
    \E caller \in Callers, name \in ToolNames, current_state \in StateArguments :
        CallTool(caller, name, current_state)

SpecMicro == InitMicro /\ [][NextMicro]_vars

\* One caller, every coaching state: the runs in which the composed text is
\* examined for each state.
NextTool ==
    \E name \in ToolNames, current_state \in CoachingStates \cup {"not_a_state"} :
        CallTool("caller1", name, current_state)

SpecTool == InitMicro /\ [][NextTool]_vars

---------------------------------------------------------------------------
(* The text functions on their own: a text is chosen, then one of the      *)
(* functions is applied to it and what it returned is recorded in `served`.*)

TextRevs == {"lockdown", "EMv2"}

\* The pieces the texts are made of: a letter, a word with a trailing
\* space, whitespace, the characters the sanitizer removes or replaces, a
\* bullet and an emoji.
SanChunks ==
    {<<"a">>, <<"s","t","u","c","k"," ">>, <<" ">>, <<"\n">>, <<"?">>, <<":">>, <<"-">>, <<"U+2022">>, <<"U+2728">>}

RECURSIVE SanTextsUpTo(_)
SanTextsUpTo(n) ==
    IF n = 0 THEN {<<>>}
    ELSE LET shorter == SanTextsUpTo(n - 1)
         IN  shorter \cup {t \o c : t \in shorter, c \in SanChunks}

SanTexts == SanTextsUpTo(MaxParts)

\* What a function returned: its name, its text argument, its maximum (0
\* when it has none), the returned string, and the calls it made on text.
Returned(fn, s, max, out, calls) ==
    [fn |-> fn, s |-> s, max |-> max, out |-> out, calls |-> calls]

InitText ==
    /\ rev \in TextRevs
    /\ input \in SanTexts
    /\ detected = Undefined
    /\ pc = "input"
    /\ sessions = NoSessions
    /\ interactionCount = 0
    /\ pending = {}
    /\ served = <<>>
    /\ nextId = 1
    /\ outcome = "none"
    /\ NoHttp

\* removeBadStuff(input)
Sanitize ==
    /\ rev = "lockdown"
    /\ pc = "input"
    /\ served' = <<Returned("removeBadStuff", input, 0, removeBadStuff(input), <<>>)>>
    /\ pc' = "sanitized"
    /\ UNCHANGED <<rev, input, detected, sessions, interactionCount, pending, nextId, outcome>>
    /\ UNCHANGED httpVars

\* removeBadStuff applied to what removeBadStuff returned.
SanitizeAgain ==
    /\ pc = "sanitized"
    /\ served' = Append(served,
                     Returned("removeBadStuff", served[1].out, 0,
                              removeBadStuff(served[1].out), <<>>))
    /\ pc' = "resanitized"
    /\ UNCHANGED <<rev, input, detected, sessions, interactionCount, pending, nextId, outcome>>
    /\ UNCHANGED httpVars

\* hardCap(input, max)
HardCap(max) ==
    /\ rev = "lockdown"
    /\ pc = "input"
    /\ served' = <<Returned("hardCap", input, max, hardCap(input, max),
                            hardCapCalls(input, max))>>
    /\ pc' = "capped"
    /\ UNCHANGED <<rev, input, detected, sessions, interactionCount, pending, nextId, outcome>>
    /\ UNCHANGED httpVars

\* cap(input, max)
Cap(max) ==
    /\ rev = "EMv2"
    /\ pc = "input"
    /\ served' = <<Returned("cap", input, max, cap(input, max), <<>>)>>
    /\ pc' = "capped"
    /\ UNCHANGED <<rev, input, detected, sessions, interactionCount, pending, nextId, outcome>>
    /\ UNCHANGED httpVars

\* The next_best_step callback of the lockdown revision, with the text as
\* its message.
NextBestStep ==
    /\ rev = "lockdown"
    /\ pc = "input"
    /\ LET r == next_best_step_lockdown(input, Absent, Absent)
       IN  /\ served' = <<Returned("next_best_step", input, 0, r.locked, r.calls)>>
           /\ detected' = r.state
    /\ pc' = "locked"
    /\ outcome' = "result"
    /\ UNCHANGED <<rev, input, sessions, interactionCount, pending, nextId>>
    /\ UNCHANGED httpVars

NextText ==
    \/ Sanitize
    \/ SanitizeAgain
    \/ \E max \in 0..MaxM : HardCap(max)
    \/ \E max \in 0..MaxM : Cap(max)
    \/ NextBestStep

SpecText == InitText /\ [][NextText]_vars


---------------------------------------------------------------------------
(* enforceCrispOutput applied to texts: words, sentence ends, line breaks, *)
(* bullet markers, and a word long enough for two of them to pass the      *)
(* character cap.                                                          *)

\* A word of more than half of STYLE.maxChars letters.
LongWord == [i \in 1..(STYLE.maxChars \div 2 + 5) |-> "w"]

CrispChunks == {<<"a">>, <<"."," ">>, <<"\n">>, <<"-"," ">>, LongWord}

RECURSIVE CrispTextsUpTo(_)
CrispTextsUpTo(n) ==
    IF n = 0 THEN {<<>>}
    ELSE LET shorter == CrispTextsUpTo(n - 1)
         IN  shorter \cup {s \o c : s \in shorter, c \in CrispChunks}

CrispTexts == CrispTextsUpTo(MaxParts)

InitCrisp ==
    /\ rev = "crisp"
    /\ input \in CrispTexts
    /\ detected = Undefined
    /\ pc = "input"
    /\ sessions = NoSessions
    /\ interactionCount = 0
    /\ pending = {}
    /\ served = <<>>
    /\ nextId = 1
    /\ outcome = "none"
    /\ NoHttp

\* enforceCrispOutput(input)
Crisp ==
    /\ pc = "input"
    /\ served' = <<Returned("enforceCrispOutput", input, 0, enforceCrispOutput(input), <<>>)>>
    /\ pc' = "crisp"
    /\ UNCHANGED <<rev, input, detected, sessions, interactionCount, pending, nextId, outcome>>
    /\ UNCHANGED httpVars

SpecCrisp == InitCrisp /\ [][Crisp]_vars
---------------------------------------------------------------------------
(* Claims about the classifier, checked under SpecClassifier.  A text      *)
(* "contains" a keyword when the string the revision's classifier searches *)
(* (its own trimmed / collapsed / lowercased form of the input) has the    *)
(* keyword as a substring.                                                 *)

Classified == pc = "classified"

HasOverwhelmed == includesAny(searched(rev, input), OverwhelmedKeywords(rev))
HasStuck == includesAny(searched(rev, input), StuckKeywords(rev))
HasReady == includesAny(searched(rev, input), ReadyKeywords(rev))
HasUnclear == includesAny(searched(rev, input), UnclearKeywords(rev))

WhitespaceOnly(s) == \A i \in 1..Len(s) : IsSpace(s[i])

\* C1: a text that contains an overwhelmed-tier keyword classifies as
\* overwhelmed, whatever stuck, ready or unclear keywords it also contains.
C1_FirstTierWins ==
    (Classified /\ HasOverwhelmed) => detected = OVERWHELMED

\* A text with both an overwhelmed and a ready keyword was classified.
C1_Witness ==
    /\ Classified
    /\ HasOverwhelmed
    /\ HasReady
    /\ detected = OVERWHELMED

\* C2: a text with no keyword of any tier, the empty string and every
\* whitespace-only string classify as unclear-direction.
C2_NoKeywordIsUnclear ==
    Classified =>
        /\ (~HasOverwhelmed /\ ~HasStuck /\ ~HasReady /\ ~HasUnclear)
               => detected = UNCLEAR
        /\ WhitespaceOnly(input) => detected = UNCLEAR

\* A non-empty whitespace-only text was classified as unclear-direction.
C2_Witness ==
    /\ Classified
    /\ input # <<>>
    /\ WhitespaceOnly(input)
    /\ detected = UNCLEAR

\* C3: a stuck keyword and no overwhelmed keyword gives stuck; a ready
\* keyword and no overwhelmed or stuck keyword gives ready-to-act.
C3_StuckThenReady ==
    Classified =>
        /\ (HasStuck /\ ~HasOverwhelmed) => detected = STUCK
        /\ (HasReady /\ ~HasOverwhelmed /\ ~HasStuck) => detected = READY

\* A text with a stuck and a ready keyword, and no overwhelmed keyword, was
\* classified as stuck.
C3_Witness ==
    /\ Classified
    /\ HasStuck
    /\ HasReady
    /\ ~HasOverwhelmed
    /\ detected = STUCK

\* C4: in every revision a text that contains "can't start" and no
\* overwhelmed-tier keyword classifies as stuck.
C4_CantStartIsStuck ==
    (/\ Classified
     /\ includes(searched(rev, input), <<"c","a","n","'","t"," ","s","t","a","r","t">>)
     /\ ~HasOverwhelmed)
        => detected = STUCK

\* C5: keywords are matched after lowercasing and collapsing whitespace, so
\* "too much" matches when its two words are separated by several spaces or
\* by a newline.
C5_MatchesAfterCollapsingWhitespace ==
    (/\ Classified
     /\ includes(toLowerCase(collapseWhitespace(input)), <<"t","o","o"," ","m","u","c","h">>))
        => detected = OVERWHELMED

\* C6: a call of the classifier returns one of the four states and leaves
\* the session map and the interaction counters as they were.
C6_TotalAndPure ==
    [][(pc = "input" /\ pc' = "classified")
          => /\ detected' \in States
             /\ sessions' = sessions
             /\ interactionCount' = interactionCount]_vars

\* The classifier returned a state for the empty string.
C6_Witness ==
    /\ Classified
    /\ input = <<>>
    /\ detected \in States

---------------------------------------------------------------------------
(* Claims about session counting.                                          *)

\* The responses composed so far for session key k, oldest first.
ServedFor(k) == SelectSeq(served, LAMBDA r : r.sid = k)

\* How many of the first i responses were composed for the key of the i-th.
RankInSession(i) ==
    Cardinality({j \in 1..i : served[j].sid = served[i].sid})

\* C7 (SpecSeq): the calls attributed to a session key are composed with
\* interactionCount 1, 2, ..., n in that order, and the key's counter is n.
C7_CountsInOrder ==
    /\ \A i \in 1..Len(served) : served[i].count = RankInSession(i)
    /\ \A k \in DOMAIN sessions : sessions[k].count = Len(ServedFor(k))
    /\ \A i \in 1..Len(served) : served[i].sid \in DOMAIN sessions

\* One key has been served three times, after another key was served.
C7_Witness ==
    \E i, j \in 1..Len(served) :
        /\ j < i
        /\ served[i].count = 3
        /\ served[j].sid # served[i].sid

\* The key a caller-supplied key stands for: trimmed, and "default" when
\* nothing is left (POST /message: the header as it is, "default" when empty).
KeyMeant(r, key) ==
    IF r = "message" THEN orDefault(key) ELSE orDefault(trim(orDefault(key)))

\* The response composed by this step, when the step composes one.
Composes == Len(served') = Len(served) + 1
Latest == served'[Len(served')]

\* The counter the handler would consult for caller-supplied key k.
Consulted(sess, k) == countOf(sess, sidOf(rev, k))

\* C8 as stated (SpecSeq): a call made with one session-key string leaves
\* the counter consulted for every different session-key string unchanged.
C8_DistinctStringsNeverShare ==
    [][Composes =>
          \A k \in SessionKeys \ {Absent} :
              (Latest.key # Absent /\ k # Latest.key)
                  => Consulted(sessions', k) = Consulted(sessions, k)]_vars

\* C8 amended (SpecSeq): a call made with one key leaves unchanged the
\* counter consulted for every key that stands for a different session
\* after trimming and defaulting.
C8_DistinctSessionsNeverShare ==
    [][Composes =>
          \A k \in SessionKeys :
              KeyMeant(rev, k) # KeyMeant(rev, Latest.key)
                  => Consulted(sessions', k) = Consulted(sessions, k)]_vars

\* Two calls with keys of different sessions were composed one after the
\* other, the second with a caller-supplied key, each counted once.
C8_Witness ==
    /\ Len(served) >= 2
    /\ served[1].key # Absent
    /\ served[2].key # Absent
    /\ KeyMeant(rev, served[1].key) # KeyMeant(rev, served[2].key)
    /\ served[1].count = 1
    /\ served[2].count = 1

\* How many of the first i responses went to the caller of the i-th.
RankForCaller(i) ==
    Cardinality({j \in 1..i : served[j].caller = served[i].caller})

\* C9 (SpecMicro): whether a response carries the call to action depends
\* only on how many times its own caller has been served.
C9_CtaScopedPerCaller ==
    \A i, j \in 1..Len(served) :
        RankForCaller(i) = RankForCaller(j) => served[i].cta = served[j].cta

\* The positions of the responses composed for session key k.
PositionsFor(k) == {i \in 1..Len(served) : served[i].sid = k}

\* C10 (SpecConc): whatever the order in which the handlers of concurrent
\* requests run, the k requests composed for a key have observed the values
\* 1..k, each exactly once, and the key's counter is k.
C10_AtomicIncrementAndRead ==
    \A k \in {served[i].sid : i \in 1..Len(served)} :
        LET n == Cardinality(PositionsFor(k))
        IN  /\ countOf(sessions, k) = n
            /\ {served[i].count : i \in PositionsFor(k)} = 1..n
            /\ \A v \in 1..n :
                   Cardinality({i \in PositionsFor(k) : served[i].count = v}) = 1

\* Three requests with one key were in flight together and their handlers
\* ran in another order than the requests arrived.
C10_Witness ==
    \E i, j \in 1..Len(served) :
        /\ i < j
        /\ served[i].sid = served[j].sid
        /\ served[i].id > served[j].id
        /\ served[j].count = 3

---------------------------------------------------------------------------
(* Claims about the call to action.                                        *)

\* The revisions with a sessions Map and the single threshold 3.
SingleThresholdRevs == {"short", "reply", "message"}

\* The call-to-action suffix of a single-threshold revision.
ctaSuffix(r) ==
    CASE r = "short" -> cta_short
      [] r = "reply" -> cta_reply
      [] r = "message" -> cta_message

\* C11 (SpecSeq): with the single threshold 3, the composed text of a call
\* contains the call-to-action suffix exactly when it was composed with an
\* interactionCount of 3 or more, that is from the session's third call on.
C11_CtaFromThirdCall ==
    rev \in SingleThresholdRevs =>
        \A i \in 1..Len(served) :
            /\ includes(served[i].text, ctaSuffix(rev)) <=> served[i].count >= 3
            /\ includes(served[i].text, ctaSuffix(rev)) <=> RankInSession(i) >= 3

\* A session got its second reply without the suffix and its third and
\* fourth with it, in a single-threshold revision.
C11_Witness ==
    /\ rev \in SingleThresholdRevs
    /\ \E i, j, k \in 1..Len(served) :
           /\ served[i].sid = served[j].sid
           /\ served[j].sid = served[k].sid
           /\ served[i].count = 2
           /\ served[j].count = 3
           /\ served[k].count = 4
           /\ ~ includes(served[i].text, ctaSuffix(rev))
           /\ endsWith(served[j].text, ctaSuffix(rev))
           /\ endsWith(served[k].text, ctaSuffix(rev))

\* C12 (SpecTool): in the two-level revision a response composed with
\* interactionCount 1 or 2 carries neither call to action, one composed with
\* 3 or 4 carries the soft one and not the stronger one, and one composed
\* with 5 or more carries the stronger one and not the soft one.
C12_TwoLevelEscalation ==
    rev = "micro" =>
        \A i \in 1..Len(served) :
            LET n == served[i].count
                soft == includes(served[i].text, softCta)
                strong == includes(served[i].text, strongCta)
            IN  /\ n \in {1, 2} => ~ soft /\ ~ strong
                /\ n \in {3, 4} => soft /\ ~ strong
                /\ n >= 5 => strong /\ ~ soft
                /\ ~ (soft /\ strong)

\* The two-level revision has composed a second response without call to
\* action, a fourth ending with the soft one and a fifth ending with the
\* stronger one.
C12_Witness ==
    /\ rev = "micro"
    /\ \E i, j, k \in 1..Len(served) :
           /\ served[i].count = 2
           /\ served[j].count = 4
           /\ served[k].count = 5
           /\ served[i].state = "stuck"
           /\ served[i].text = stateMessages_micro("stuck")
           /\ endsWith(served[j].text, softCta)
           /\ endsWith(served[k].text, strongCta)

\* The reference every call to action of the get_micro_action revisions
\* ends with.
ctaReference == <<"E","l","i","t","e","M","i","n","d","s","e","t",".","a","i">>

\* C13 (SpecTool): in the forced-concision revision the text returned to
\* the caller, the output of enforceCrispOutput, contains the call to action
\* with its EliteMindset.ai reference exactly when the response was composed
\* with an interactionCount of 3 or more.
C13_CrispTextKeepsCta ==
    rev = "crisp" =>
        \A i \in 1..Len(served) :
            includes(served[i].text, ctaReference) <=> served[i].count >= 3

---------------------------------------------------------------------------
(* Claims about the length caps and the sanitizer.                         *)

\* The results recorded for the function named fn.
ReturnedBy(fn) == {i \in 1..Len(served) : served[i].fn = fn}

\* C14 as stated (SpecText): for every text and every maximum m,
\* hardCap(s, m) has at most m characters.
C14_HardCapWithinEveryMax ==
    \A i \in ReturnedBy("hardCap") : Len(served[i].out) <= served[i].max

\* C14 amended (SpecText): for every text and every maximum m >= 1,
\* hardCap(s, m) has at most m characters.
C14_HardCapWithinMax ==
    \A i \in ReturnedBy("hardCap") :
        served[i].max >= 1 => Len(served[i].out) <= served[i].max

\* hardCap cut a sanitized text longer than its maximum down to exactly the
\* maximum, ellipsis included.
C14_Witness ==
    \E i \in ReturnedBy("hardCap") :
        /\ served[i].max >= 2
        /\ Len(removeBadStuff(served[i].s)) > served[i].max
        /\ Len(served[i].out) = served[i].max
        /\ endsWith(served[i].out, Ellipsis)

\* C15 (SpecText): for every text and every maximum m (here m >= 1), the
\* string cap(text, m) of server.js returns has at most m characters, the
\* appended marker included.
C15_CapWithinMax ==
    \A i \in ReturnedBy("cap") :
        served[i].max >= 1 => Len(served[i].out) <= served[i].max

\* C16 (SpecText): whenever the text given to hardCap or cap is longer than
\* m characters (here m >= 1), what is returned ends with the ellipsis.
C16_LongInputEndsWithEllipsis ==
    \A i \in ReturnedBy("hardCap") \cup ReturnedBy("cap") :
        (served[i].max >= 1 /\ Len(served[i].s) > served[i].max)
            => endsWith(served[i].out, Ellipsis)

\* The calls on text made by the next_best_step callback of the lockdown
\* revision, when it has run.
LockedCalls == IF pc = "locked" THEN served[1].calls ELSE <<>>

\* C17 (SpecText): in the lockdown pipeline every length test and cut is
\* made on the string the sanitizer has just returned, and no string that a
\* length cap returned is passed through the sanitizer afterwards.
C17_CapAfterSanitizeOnly ==
    /\ \A j \in 1..Len(LockedCalls) :
           LockedCalls[j].op = "cap" =>
               /\ j > 1
               /\ LockedCalls[j - 1].op = "removeBadStuff"
               /\ LockedCalls[j].in = LockedCalls[j - 1].out
    /\ \A i, j \in 1..Len(LockedCalls) :
           (i < j /\ LockedCalls[i].op = "cap" /\ LockedCalls[j].op = "removeBadStuff")
               => ~ includes(LockedCalls[j].in, LockedCalls[i].out)

\* C18 (SpecText): removeBadStuff applied to what removeBadStuff returned
\* returns it unchanged.
C18_SanitizeIdempotent ==
    pc = "resanitized" =>
        /\ served[2].s = served[1].out
        /\ served[2].out = served[1].out

\* The sanitizer ran twice on a text that its first run changed and did not
\* empty.
C18_Witness ==
    /\ pc = "resanitized"
    /\ served[1].out # served[1].s
    /\ served[1].out # <<>>
    /\ \E i \in 1..Len(served[1].s) : served[1].s[i] \in {"-", "?", ":"}

\* The characters the sanitizer is to leave out of its result.
Removed == Bullets \cup {"\n", "\r", "?", ":", "-"}

\* C19 (SpecText): what removeBadStuff returns holds no bullet glyph, no
\* newline or carriage return, no question mark, no colon and no hyphen, its
\* whitespace is single spaces only, and it neither starts nor ends with
\* whitespace.
C19_SanitizedShape ==
    \A i \in ReturnedBy("removeBadStuff") :
        LET out == served[i].out
        IN  /\ \A k \in 1..Len(out) : out[k] \notin Removed
            /\ \A k \in 1..Len(out) : IsSpace(out[k]) => out[k] = " "
            /\ \A k \in 1..(Len(out) - 1) : ~ (IsSpace(out[k]) /\ IsSpace(out[k + 1]))
            /\ out # <<>> => ~ IsSpace(out[1]) /\ ~ IsSpace(out[Len(out)])

\* The sanitizer returned a text with a single space inside where the text
\* it was given held a hyphen, a newline or a longer run of whitespace.
C19_Witness ==
    \E i \in ReturnedBy("removeBadStuff") :
        /\ \E k \in 1..Len(served[i].s) : served[i].s[k] \in {"-", "\n"}
        /\ \E k \in 1..Len(served[i].out) : served[i].out[k] = " "
        /\ Len(served[i].out) < Len(served[i].s)

\* The emoji of the model's alphabet: U+2728, sparkles.
Emoji == {"U+2728"}

\* C20 (SpecText): what the lockdown sanitizer returns, from removeBadStuff
\* and hence from hardCap, holds no emoji.
C20_NoEmojiLeft ==
    \A i \in ReturnedBy("removeBadStuff") \cup ReturnedBy("hardCap") :
        \A k \in 1..Len(served[i].out) : served[i].out[k] \notin Emoji


---------------------------------------------------------------------------
(* Content lists.                                                          *)

\* The number of items of type text in a content list.
TextItems(content) == Cardinality({i \in 1..Len(content) : content[i].type = "text"})

\* C21: every content list a tool call returns holds exactly one item of
\* type text, for every state and whatever the disk holds for the image.
C21_ExactlyOneTextItem ==
    \A i \in 1..Len(served) : TextItems(served[i].content) = 1

---------------------------------------------------------------------------
(* Errors.                                                                 *)

\* C22: a POST /message whose body has no messages array (the field is
\* missing or is not an array) is answered 400 and reaches neither the
\* classifier nor the composer: no session is created or changed and no
\* reply is composed.
C22_InvalidBodyRejectedUntouched ==
    [][\A req \in pending :
          (rev = "message" /\ req \notin pending' /\ req.args.message \in InvalidMessages)
          => (outcome' = "400" /\ sessions' = sessions /\ served' = served)]_vars

\* A body without a messages array was rejected after sessions existed, and
\* one was rejected before any session existed.
C22_Witness ==
    /\ rev = "message"
    /\ outcome = "400"
    /\ pending = {}
    /\ Len(served) >= 1
    /\ DOMAIN sessions = {served[i].sid : i \in 1..Len(served)}

\* C23: a tools/call that ends in an error (another tool name, or arguments
\* the schema rejects) leaves interactionCount as it was: the counter is
\* the number of calls that returned a result, and the i-th of those is
\* numbered i and carries the call to action from i = 3 on, however many
\* failed calls came in between.
C23_FailedCallsNotCounted ==
    /\ interactionCount = Len(served)
    /\ \A i \in 1..Len(served) :
          /\ served[i].count = i
          /\ served[i].cta <=> (i >= 3)

\* The last request failed, after at least one failed request and three
\* answered ones, and the third answered one, a later request than the
\* third, carries the call to action.
C23_Witness ==
    /\ outcome = "error"
    /\ Len(served) >= 3
    /\ served[3].id > 3
    /\ served[3].cta
    /\ nextId - 1 > Len(served) + 1

\* C24: a failure raised while a POST /mcp request is handled, the
\* establishing of its transport included, is caught by the route handler
\* and answered 500; it never leaves the handler uncaught.
C24_PostFailureAnswered500 ==
    (lastHttp.method = "POST" /\ lastHttp.fails # "none") => lastHttp.status = "500"

---------------------------------------------------------------------------
(* Sessions and transports.                                                *)

\* C25: a session entry, once in the sessions Map, stays there and its
\* count never goes back; the close of a transport, that of the transport
\* whose id is the key included, leaves the whole Map as it is.
C25_SessionsNeverRemoved ==
    [][/\ \A k \in DOMAIN sessions :
              /\ k \in DOMAIN sessions'
              /\ sessions'[k].count >= sessions[k].count
       /\ (httpTransports' # httpTransports /\ httpTransports' \subseteq httpTransports)
              => sessions' = sessions]_vars

\* The transport whose id keys a session has closed after a DELETE, and the
\* session is still there with the calls it counted.
C25_Witness ==
    \E k \in DOMAIN sessions :
        /\ k \in {uuid(n) : n \in 1..generated}
        /\ k \notin httpTransports
        /\ sessions[k].count >= 2
        /\ lastHttp.method = "DELETE" /\ lastHttp.header = k /\ lastHttp.status = "200"

---------------------------------------------------------------------------
(* The locked response and the forced concision.                           *)

\* C26: buildLockedResponse returns `![](<ORIGIN>/images/<image file>) `
\* followed by the sanitized sentence of the detected state: the markdown
\* image with the state's image URL unmodified, one space, the sentence,
\* and nothing else.
C26_LockedResponseExactForm ==
    pc = "locked" =>
        served[1].out = <<"!","[","]","(">> \o ORIGIN \o <<"/","i","m","a","g","e","s","/">> \o IMAGES_lockdown(detected)
                        \o <<")"," ">> \o removeBadStuff(ACTIONS_lockdown(detected))

\* The lines of a text: what lies between its newlines.
LinesOf(s) ==
    LET starts == {1} \cup {i + 1 : i \in {j \in 1..Len(s) : s[j] = "\n"}}
    IN  {SubSeq(s, p, (CHOOSE e \in p..(Len(s) + 1) :
                          /\ e = Len(s) + 1 \/ s[e] = "\n"
                          /\ \A k \in p..(e - 1) : s[k] # "\n") - 1) : p \in starts}

NewlineCount(s) == Cardinality({j \in 1..Len(s) : s[j] = "\n"})

\* C27: enforceCrispOutput returns, for every input, a non-empty text of at
\* most 650 characters and at most 5 lines, every line a bullet that
\* begins with "- " and holds at most 2 sentences.
C27_CrispOutputShape ==
    pc = "crisp" =>
        LET out == served[1].out
        IN  /\ out # <<>>
            /\ Len(out) <= STYLE.maxChars
            /\ NewlineCount(out) + 1 <= STYLE.maxBullets
            /\ \A line \in LinesOf(out) :
                   /\ startsWith(line, <<"-"," ">>)
                   /\ Len(splitTrimmed(line, sentenceBreaks(line)))
                          <= STYLE.maxSentencesPerBullet

---------------------------------------------------------------------------
(* What a response depends on.                                             *)

\* C28: in the EMv2 revision the content list depends only on the detected
\* state and on what the disk holds for that state's image: two calls with
\* the same state and the same file return the same content, whatever
\* their session keys and interaction counts.
C28_ContentIgnoresSession ==
    rev = "EMv2" =>
        \A i, j \in 1..Len(served) :
            (served[i].state = served[j].state /\ served[i].file = served[j].file)
                => served[i].content = served[j].content

\* Two calls of different sessions, the first of one and the second of the
\* other, with the same state and the same file.
C28_Witness ==
    /\ rev = "EMv2"
    /\ \E i, j \in 1..Len(served) :
           /\ served[i].sid # served[j].sid
           /\ served[i].count = 1 /\ served[j].count = 2
           /\ served[i].state = served[j].state
           /\ served[i].file = served[j].file

\* C29: when a tools/call of next_best_step arrives on POST /mcp, the only
\* session counter that moves is the one keyed by the session id of the
\* transport that carries the request, whatever sessionId argument the
\* caller supplied.
C29_CounterKeyedByTransport ==
    [][(nextId' # nextId /\ lastHttp'.method = "POST" /\ isNextBestStepCall(lastHttp'.body))
          => \A k \in DOMAIN sessions' :
                 countOf(sessions', k) # countOf(sessions, k) => k = lastHttp'.transport]_vars

\* A call on the first transport named the id of the second, registered,
\* transport as its sessionId argument; the first transport's counter moved
\* and the second has none.
C29_Witness ==
    /\ lastHttp.method = "POST" /\ isNextBestStepCall(lastHttp.body)
    /\ lastHttp.status = "200"
    /\ lastHttp.transport = uuid(1)
    /\ lastHttp.body.arguments.sessionId = uuid(2)
    /\ uuid(2) \in httpTransports
    /\ countOf(sessions, uuid(1)) >= 1
    /\ countOf(sessions, uuid(2)) = 0

\* The ids of the transports that have closed: generated, and no longer in
\* the registry (an id enters the registry when it is generated).
ClosedIds == {uuid(n) : n \in 1..generated} \ httpTransports

\* Whether the route hands a request to a transport: its header names an id
\* of the registry, or it is a POST without the header whose body is an
\* initialize request.
Admissible(request, registry) ==
    \/ request.header # Absent /\ request.header \in registry
    \/ /\ request.method = "POST"
       /\ request.header = Absent
       /\ request.body.method = "initialize"

\* C30: a POST, GET or DELETE /mcp request is handed to a transport only if
\* its Mcp-Session-Id header names an id of the registry or (POST only) it
\* has no such header and its body is an initialize request; every other
\* request is answered 400 and creates no transport; the id of a closed
\* transport stays out of the registry, and every later request bearing it
\* is answered 400.
C30_RegistryGuardsTransports ==
    [][/\ nextId' # nextId =>
              /\ lastHttp'.transport # Absent => Admissible(lastHttp', httpTransports)
              /\ ~ Admissible(lastHttp', httpTransports) =>
                     /\ lastHttp'.status = "400"
                     /\ ~ lastHttp'.created
                     /\ httpTransports' = httpTransports
                     /\ generated' = generated
              /\ lastHttp'.header \in ClosedIds => lastHttp'.status = "400"
       /\ \A id \in ClosedIds : id \notin httpTransports']_vars

\* A transport was registered, then closed, and a later request bearing its
\* id was answered 400 while another transport is registered.
C30_Witness ==
    /\ lastHttp.header \in ClosedIds
    /\ lastHttp.status = "400"
    /\ httpTransports # {}
=============================================================================
